---- MODULE Spec2Model ----
(***************************************************************************)
(* A model of prost-build's code generator (code_generator.rs): the walk   *)
(* of a file descriptor by CodeGenerator::generate, the lowering of        *)
(* messages, fields, oneofs, enums and services, name resolution and the   *)
(* enum-prefix heuristic.                                                  *)
(*                                                                         *)
(* Rust strings are sequences of one-character strings, so that split,     *)
(* starts_with, slicing and case conversion are computed as the code       *)
(* computes them.  An Option<T> is a sequence of length at most one:       *)
(* <<>> is None and <<v>> is Some(v).                                      *)
(***************************************************************************)
EXTENDS Integers, Sequences, FiniteSets, TLC

VARIABLES pc, args, cg, gen_idx, ret

vars == <<pc, args, cg, gen_idx, ret>>

(***************************************************************************)
(* The case tables of the characters outside ASCII (Unicode 14.0, and the  *)
(* cased letters added up to 17.0).  A character outside ASCII is written  *)
(* by its code point: "U+00C9" is the capital E with acute.                *)
(***************************************************************************)
\* The characters with the property Uppercase (Lu and Other_Uppercase).
UppercaseOutsideAscii ==
    {
      "U+00C0", "U+00C1", "U+00C2", "U+00C3", "U+00C4", "U+00C5", "U+00C6", "U+00C7",
      "U+00C8", "U+00C9", "U+00CA", "U+00CB", "U+00CC", "U+00CD", "U+00CE", "U+00CF",
      "U+00D0", "U+00D1", "U+00D2", "U+00D3", "U+00D4", "U+00D5", "U+00D6", "U+00D8",
      "U+00D9", "U+00DA", "U+00DB", "U+00DC", "U+00DD", "U+00DE", "U+0100", "U+0102",
      "U+0104", "U+0106", "U+0108", "U+010A", "U+010C", "U+010E", "U+0110", "U+0112",
      "U+0114", "U+0116", "U+0118", "U+011A", "U+011C", "U+011E", "U+0120", "U+0122",
      "U+0124", "U+0126", "U+0128", "U+012A", "U+012C", "U+012E", "U+0130", "U+0132",
      "U+0134", "U+0136", "U+0139", "U+013B", "U+013D", "U+013F", "U+0141", "U+0143",
      "U+0145", "U+0147", "U+014A", "U+014C", "U+014E", "U+0150", "U+0152", "U+0154",
      "U+0156", "U+0158", "U+015A", "U+015C", "U+015E", "U+0160", "U+0162", "U+0164",
      "U+0166", "U+0168", "U+016A", "U+016C", "U+016E", "U+0170", "U+0172", "U+0174",
      "U+0176", "U+0178", "U+0179", "U+017B", "U+017D", "U+0181", "U+0182", "U+0184",
      "U+0186", "U+0187", "U+0189", "U+018A", "U+018B", "U+018E", "U+018F", "U+0190",
      "U+0191", "U+0193", "U+0194", "U+0196", "U+0197", "U+0198", "U+019C", "U+019D",
      "U+019F", "U+01A0", "U+01A2", "U+01A4", "U+01A6", "U+01A7", "U+01A9", "U+01AC",
      "U+01AE", "U+01AF", "U+01B1", "U+01B2", "U+01B3", "U+01B5", "U+01B7", "U+01B8",
      "U+01BC", "U+01C4", "U+01C7", "U+01CA", "U+01CD", "U+01CF", "U+01D1", "U+01D3",
      "U+01D5", "U+01D7", "U+01D9", "U+01DB", "U+01DE", "U+01E0", "U+01E2", "U+01E4",
      "U+01E6", "U+01E8", "U+01EA", "U+01EC", "U+01EE", "U+01F1", "U+01F4", "U+01F6",
      "U+01F7", "U+01F8", "U+01FA", "U+01FC", "U+01FE", "U+0200", "U+0202", "U+0204",
      "U+0206", "U+0208", "U+020A", "U+020C", "U+020E", "U+0210", "U+0212", "U+0214",
      "U+0216", "U+0218", "U+021A", "U+021C", "U+021E", "U+0220", "U+0222", "U+0224",
      "U+0226", "U+0228", "U+022A", "U+022C", "U+022E", "U+0230", "U+0232", "U+023A",
      "U+023B", "U+023D", "U+023E", "U+0241", "U+0243", "U+0244", "U+0245", "U+0246",
      "U+0248", "U+024A", "U+024C", "U+024E", "U+0370", "U+0372", "U+0376", "U+037F",
      "U+0386", "U+0388", "U+0389", "U+038A", "U+038C", "U+038E", "U+038F", "U+0391",
      "U+0392", "U+0393", "U+0394", "U+0395", "U+0396", "U+0397", "U+0398", "U+0399",
      "U+039A", "U+039B", "U+039C", "U+039D", "U+039E", "U+039F", "U+03A0", "U+03A1",
      "U+03A3", "U+03A4", "U+03A5", "U+03A6", "U+03A7", "U+03A8", "U+03A9", "U+03AA",
      "U+03AB", "U+03CF", "U+03D2", "U+03D3", "U+03D4", "U+03D8", "U+03DA", "U+03DC",
      "U+03DE", "U+03E0", "U+03E2", "U+03E4", "U+03E6", "U+03E8", "U+03EA", "U+03EC",
      "U+03EE", "U+03F4", "U+03F7", "U+03F9", "U+03FA", "U+03FD", "U+03FE", "U+03FF",
      "U+0400", "U+0401", "U+0402", "U+0403", "U+0404", "U+0405", "U+0406", "U+0407",
      "U+0408", "U+0409", "U+040A", "U+040B", "U+040C", "U+040D", "U+040E", "U+040F",
      "U+0410", "U+0411", "U+0412", "U+0413", "U+0414", "U+0415", "U+0416", "U+0417",
      "U+0418", "U+0419", "U+041A", "U+041B", "U+041C", "U+041D", "U+041E", "U+041F",
      "U+0420", "U+0421", "U+0422", "U+0423", "U+0424", "U+0425", "U+0426", "U+0427",
      "U+0428", "U+0429", "U+042A", "U+042B", "U+042C", "U+042D", "U+042E", "U+042F",
      "U+0460", "U+0462", "U+0464", "U+0466", "U+0468", "U+046A", "U+046C", "U+046E",
      "U+0470", "U+0472", "U+0474", "U+0476", "U+0478", "U+047A", "U+047C", "U+047E",
      "U+0480", "U+048A", "U+048C", "U+048E", "U+0490", "U+0492", "U+0494", "U+0496",
      "U+0498", "U+049A", "U+049C", "U+049E", "U+04A0", "U+04A2", "U+04A4", "U+04A6",
      "U+04A8", "U+04AA", "U+04AC", "U+04AE", "U+04B0", "U+04B2", "U+04B4", "U+04B6",
      "U+04B8", "U+04BA", "U+04BC", "U+04BE", "U+04C0", "U+04C1", "U+04C3", "U+04C5",
      "U+04C7", "U+04C9", "U+04CB", "U+04CD", "U+04D0", "U+04D2", "U+04D4", "U+04D6",
      "U+04D8", "U+04DA", "U+04DC", "U+04DE", "U+04E0", "U+04E2", "U+04E4", "U+04E6",
      "U+04E8", "U+04EA", "U+04EC", "U+04EE", "U+04F0", "U+04F2", "U+04F4", "U+04F6",
      "U+04F8", "U+04FA", "U+04FC", "U+04FE", "U+0500", "U+0502", "U+0504", "U+0506",
      "U+0508", "U+050A", "U+050C", "U+050E", "U+0510", "U+0512", "U+0514", "U+0516",
      "U+0518", "U+051A", "U+051C", "U+051E", "U+0520", "U+0522", "U+0524", "U+0526",
      "U+0528", "U+052A", "U+052C", "U+052E", "U+0531", "U+0532", "U+0533", "U+0534",
      "U+0535", "U+0536", "U+0537", "U+0538", "U+0539", "U+053A", "U+053B", "U+053C",
      "U+053D", "U+053E", "U+053F", "U+0540", "U+0541", "U+0542", "U+0543", "U+0544",
      "U+0545", "U+0546", "U+0547", "U+0548", "U+0549", "U+054A", "U+054B", "U+054C",
      "U+054D", "U+054E", "U+054F", "U+0550", "U+0551", "U+0552", "U+0553", "U+0554",
      "U+0555", "U+0556", "U+10A0", "U+10A1", "U+10A2", "U+10A3", "U+10A4", "U+10A5",
      "U+10A6", "U+10A7", "U+10A8", "U+10A9", "U+10AA", "U+10AB", "U+10AC", "U+10AD",
      "U+10AE", "U+10AF", "U+10B0", "U+10B1", "U+10B2", "U+10B3", "U+10B4", "U+10B5",
      "U+10B6", "U+10B7", "U+10B8", "U+10B9", "U+10BA", "U+10BB", "U+10BC", "U+10BD",
      "U+10BE", "U+10BF", "U+10C0", "U+10C1", "U+10C2", "U+10C3", "U+10C4", "U+10C5",
      "U+10C7", "U+10CD", "U+13A0", "U+13A1", "U+13A2", "U+13A3", "U+13A4", "U+13A5",
      "U+13A6", "U+13A7", "U+13A8", "U+13A9", "U+13AA", "U+13AB", "U+13AC", "U+13AD",
      "U+13AE", "U+13AF", "U+13B0", "U+13B1", "U+13B2", "U+13B3", "U+13B4", "U+13B5",
      "U+13B6", "U+13B7", "U+13B8", "U+13B9", "U+13BA", "U+13BB", "U+13BC", "U+13BD",
      "U+13BE", "U+13BF", "U+13C0", "U+13C1", "U+13C2", "U+13C3", "U+13C4", "U+13C5",
      "U+13C6", "U+13C7", "U+13C8", "U+13C9", "U+13CA", "U+13CB", "U+13CC", "U+13CD",
      "U+13CE", "U+13CF", "U+13D0", "U+13D1", "U+13D2", "U+13D3", "U+13D4", "U+13D5",
      "U+13D6", "U+13D7", "U+13D8", "U+13D9", "U+13DA", "U+13DB", "U+13DC", "U+13DD",
      "U+13DE", "U+13DF", "U+13E0", "U+13E1", "U+13E2", "U+13E3", "U+13E4", "U+13E5",
      "U+13E6", "U+13E7", "U+13E8", "U+13E9", "U+13EA", "U+13EB", "U+13EC", "U+13ED",
      "U+13EE", "U+13EF", "U+13F0", "U+13F1", "U+13F2", "U+13F3", "U+13F4", "U+13F5",
      "U+1C89", "U+1C90", "U+1C91", "U+1C92", "U+1C93", "U+1C94", "U+1C95", "U+1C96",
      "U+1C97", "U+1C98", "U+1C99", "U+1C9A", "U+1C9B", "U+1C9C", "U+1C9D", "U+1C9E",
      "U+1C9F", "U+1CA0", "U+1CA1", "U+1CA2", "U+1CA3", "U+1CA4", "U+1CA5", "U+1CA6",
      "U+1CA7", "U+1CA8", "U+1CA9", "U+1CAA", "U+1CAB", "U+1CAC", "U+1CAD", "U+1CAE",
      "U+1CAF", "U+1CB0", "U+1CB1", "U+1CB2", "U+1CB3", "U+1CB4", "U+1CB5", "U+1CB6",
      "U+1CB7", "U+1CB8", "U+1CB9", "U+1CBA", "U+1CBD", "U+1CBE", "U+1CBF", "U+1E00",
      "U+1E02", "U+1E04", "U+1E06", "U+1E08", "U+1E0A", "U+1E0C", "U+1E0E", "U+1E10",
      "U+1E12", "U+1E14", "U+1E16", "U+1E18", "U+1E1A", "U+1E1C", "U+1E1E", "U+1E20",
      "U+1E22", "U+1E24", "U+1E26", "U+1E28", "U+1E2A", "U+1E2C", "U+1E2E", "U+1E30",
      "U+1E32", "U+1E34", "U+1E36", "U+1E38", "U+1E3A", "U+1E3C", "U+1E3E", "U+1E40",
      "U+1E42", "U+1E44", "U+1E46", "U+1E48", "U+1E4A", "U+1E4C", "U+1E4E", "U+1E50",
      "U+1E52", "U+1E54", "U+1E56", "U+1E58", "U+1E5A", "U+1E5C", "U+1E5E", "U+1E60",
      "U+1E62", "U+1E64", "U+1E66", "U+1E68", "U+1E6A", "U+1E6C", "U+1E6E", "U+1E70",
      "U+1E72", "U+1E74", "U+1E76", "U+1E78", "U+1E7A", "U+1E7C", "U+1E7E", "U+1E80",
      "U+1E82", "U+1E84", "U+1E86", "U+1E88", "U+1E8A", "U+1E8C", "U+1E8E", "U+1E90",
      "U+1E92", "U+1E94", "U+1E9E", "U+1EA0", "U+1EA2", "U+1EA4", "U+1EA6", "U+1EA8",
      "U+1EAA", "U+1EAC", "U+1EAE", "U+1EB0", "U+1EB2", "U+1EB4", "U+1EB6", "U+1EB8",
      "U+1EBA", "U+1EBC", "U+1EBE", "U+1EC0", "U+1EC2", "U+1EC4", "U+1EC6", "U+1EC8",
      "U+1ECA", "U+1ECC", "U+1ECE", "U+1ED0", "U+1ED2", "U+1ED4", "U+1ED6", "U+1ED8",
      "U+1EDA", "U+1EDC", "U+1EDE", "U+1EE0", "U+1EE2", "U+1EE4", "U+1EE6", "U+1EE8",
      "U+1EEA", "U+1EEC", "U+1EEE", "U+1EF0", "U+1EF2", "U+1EF4", "U+1EF6", "U+1EF8",
      "U+1EFA", "U+1EFC", "U+1EFE", "U+1F08", "U+1F09", "U+1F0A", "U+1F0B", "U+1F0C",
      "U+1F0D", "U+1F0E", "U+1F0F", "U+1F18", "U+1F19", "U+1F1A", "U+1F1B", "U+1F1C",
      "U+1F1D", "U+1F28", "U+1F29", "U+1F2A", "U+1F2B", "U+1F2C", "U+1F2D", "U+1F2E",
      "U+1F2F", "U+1F38", "U+1F39", "U+1F3A", "U+1F3B", "U+1F3C", "U+1F3D", "U+1F3E",
      "U+1F3F", "U+1F48", "U+1F49", "U+1F4A", "U+1F4B", "U+1F4C", "U+1F4D", "U+1F59",
      "U+1F5B", "U+1F5D", "U+1F5F", "U+1F68", "U+1F69", "U+1F6A", "U+1F6B", "U+1F6C",
      "U+1F6D", "U+1F6E", "U+1F6F", "U+1FB8", "U+1FB9", "U+1FBA", "U+1FBB", "U+1FC8",
      "U+1FC9", "U+1FCA", "U+1FCB", "U+1FD8", "U+1FD9", "U+1FDA", "U+1FDB", "U+1FE8",
      "U+1FE9", "U+1FEA", "U+1FEB", "U+1FEC", "U+1FF8", "U+1FF9", "U+1FFA", "U+1FFB",
      "U+2102", "U+2107", "U+210B", "U+210C", "U+210D", "U+2110", "U+2111", "U+2112",
      "U+2115", "U+2119", "U+211A", "U+211B", "U+211C", "U+211D", "U+2124", "U+2126",
      "U+2128", "U+212A", "U+212B", "U+212C", "U+212D", "U+2130", "U+2131", "U+2132",
      "U+2133", "U+213E", "U+213F", "U+2145", "U+2160", "U+2161", "U+2162", "U+2163",
      "U+2164", "U+2165", "U+2166", "U+2167", "U+2168", "U+2169", "U+216A", "U+216B",
      "U+216C", "U+216D", "U+216E", "U+216F", "U+2183", "U+24B6", "U+24B7", "U+24B8",
      "U+24B9", "U+24BA", "U+24BB", "U+24BC", "U+24BD", "U+24BE", "U+24BF", "U+24C0",
      "U+24C1", "U+24C2", "U+24C3", "U+24C4", "U+24C5", "U+24C6", "U+24C7", "U+24C8",
      "U+24C9", "U+24CA", "U+24CB", "U+24CC", "U+24CD", "U+24CE", "U+24CF", "U+2C00",
      "U+2C01", "U+2C02", "U+2C03", "U+2C04", "U+2C05", "U+2C06", "U+2C07", "U+2C08",
      "U+2C09", "U+2C0A", "U+2C0B", "U+2C0C", "U+2C0D", "U+2C0E", "U+2C0F", "U+2C10",
      "U+2C11", "U+2C12", "U+2C13", "U+2C14", "U+2C15", "U+2C16", "U+2C17", "U+2C18",
      "U+2C19", "U+2C1A", "U+2C1B", "U+2C1C", "U+2C1D", "U+2C1E", "U+2C1F", "U+2C20",
      "U+2C21", "U+2C22", "U+2C23", "U+2C24", "U+2C25", "U+2C26", "U+2C27", "U+2C28",
      "U+2C29", "U+2C2A", "U+2C2B", "U+2C2C", "U+2C2D", "U+2C2E", "U+2C2F", "U+2C60",
      "U+2C62", "U+2C63", "U+2C64", "U+2C67", "U+2C69", "U+2C6B", "U+2C6D", "U+2C6E",
      "U+2C6F", "U+2C70", "U+2C72", "U+2C75", "U+2C7E", "U+2C7F", "U+2C80", "U+2C82",
      "U+2C84", "U+2C86", "U+2C88", "U+2C8A", "U+2C8C", "U+2C8E", "U+2C90", "U+2C92",
      "U+2C94", "U+2C96", "U+2C98", "U+2C9A", "U+2C9C", "U+2C9E", "U+2CA0", "U+2CA2",
      "U+2CA4", "U+2CA6", "U+2CA8", "U+2CAA", "U+2CAC", "U+2CAE", "U+2CB0", "U+2CB2",
      "U+2CB4", "U+2CB6", "U+2CB8", "U+2CBA", "U+2CBC", "U+2CBE", "U+2CC0", "U+2CC2",
      "U+2CC4", "U+2CC6", "U+2CC8", "U+2CCA", "U+2CCC", "U+2CCE", "U+2CD0", "U+2CD2",
      "U+2CD4", "U+2CD6", "U+2CD8", "U+2CDA", "U+2CDC", "U+2CDE", "U+2CE0", "U+2CE2",
      "U+2CEB", "U+2CED", "U+2CF2", "U+A640", "U+A642", "U+A644", "U+A646", "U+A648",
      "U+A64A", "U+A64C", "U+A64E", "U+A650", "U+A652", "U+A654", "U+A656", "U+A658",
      "U+A65A", "U+A65C", "U+A65E", "U+A660", "U+A662", "U+A664", "U+A666", "U+A668",
      "U+A66A", "U+A66C", "U+A680", "U+A682", "U+A684", "U+A686", "U+A688", "U+A68A",
      "U+A68C", "U+A68E", "U+A690", "U+A692", "U+A694", "U+A696", "U+A698", "U+A69A",
      "U+A722", "U+A724", "U+A726", "U+A728", "U+A72A", "U+A72C", "U+A72E", "U+A732",
      "U+A734", "U+A736", "U+A738", "U+A73A", "U+A73C", "U+A73E", "U+A740", "U+A742",
      "U+A744", "U+A746", "U+A748", "U+A74A", "U+A74C", "U+A74E", "U+A750", "U+A752",
      "U+A754", "U+A756", "U+A758", "U+A75A", "U+A75C", "U+A75E", "U+A760", "U+A762",
      "U+A764", "U+A766", "U+A768", "U+A76A", "U+A76C", "U+A76E", "U+A779", "U+A77B",
      "U+A77D", "U+A77E", "U+A780", "U+A782", "U+A784", "U+A786", "U+A78B", "U+A78D",
      "U+A790", "U+A792", "U+A796", "U+A798", "U+A79A", "U+A79C", "U+A79E", "U+A7A0",
      "U+A7A2", "U+A7A4", "U+A7A6", "U+A7A8", "U+A7AA", "U+A7AB", "U+A7AC", "U+A7AD",
      "U+A7AE", "U+A7B0", "U+A7B1", "U+A7B2", "U+A7B3", "U+A7B4", "U+A7B6", "U+A7B8",
      "U+A7BA", "U+A7BC", "U+A7BE", "U+A7C0", "U+A7C2", "U+A7C4", "U+A7C5", "U+A7C6",
      "U+A7C7", "U+A7C9", "U+A7CB", "U+A7CC", "U+A7CE", "U+A7D0", "U+A7D2", "U+A7D4",
      "U+A7D6", "U+A7D8", "U+A7DA", "U+A7DC", "U+A7F5", "U+FF21", "U+FF22", "U+FF23",
      "U+FF24", "U+FF25", "U+FF26", "U+FF27", "U+FF28", "U+FF29", "U+FF2A", "U+FF2B",
      "U+FF2C", "U+FF2D", "U+FF2E", "U+FF2F", "U+FF30", "U+FF31", "U+FF32", "U+FF33",
      "U+FF34", "U+FF35", "U+FF36", "U+FF37", "U+FF38", "U+FF39", "U+FF3A", "U+10400",
      "U+10401", "U+10402", "U+10403", "U+10404", "U+10405", "U+10406", "U+10407", "U+10408",
      "U+10409", "U+1040A", "U+1040B", "U+1040C", "U+1040D", "U+1040E", "U+1040F", "U+10410",
      "U+10411", "U+10412", "U+10413", "U+10414", "U+10415", "U+10416", "U+10417", "U+10418",
      "U+10419", "U+1041A", "U+1041B", "U+1041C", "U+1041D", "U+1041E", "U+1041F", "U+10420",
      "U+10421", "U+10422", "U+10423", "U+10424", "U+10425", "U+10426", "U+10427", "U+104B0",
      "U+104B1", "U+104B2", "U+104B3", "U+104B4", "U+104B5", "U+104B6", "U+104B7", "U+104B8",
      "U+104B9", "U+104BA", "U+104BB", "U+104BC", "U+104BD", "U+104BE", "U+104BF", "U+104C0",
      "U+104C1", "U+104C2", "U+104C3", "U+104C4", "U+104C5", "U+104C6", "U+104C7", "U+104C8",
      "U+104C9", "U+104CA", "U+104CB", "U+104CC", "U+104CD", "U+104CE", "U+104CF", "U+104D0",
      "U+104D1", "U+104D2", "U+104D3", "U+10570", "U+10571", "U+10572", "U+10573", "U+10574",
      "U+10575", "U+10576", "U+10577", "U+10578", "U+10579", "U+1057A", "U+1057C", "U+1057D",
      "U+1057E", "U+1057F", "U+10580", "U+10581", "U+10582", "U+10583", "U+10584", "U+10585",
      "U+10586", "U+10587", "U+10588", "U+10589", "U+1058A", "U+1058C", "U+1058D", "U+1058E",
      "U+1058F", "U+10590", "U+10591", "U+10592", "U+10594", "U+10595", "U+10C80", "U+10C81",
      "U+10C82", "U+10C83", "U+10C84", "U+10C85", "U+10C86", "U+10C87", "U+10C88", "U+10C89",
      "U+10C8A", "U+10C8B", "U+10C8C", "U+10C8D", "U+10C8E", "U+10C8F", "U+10C90", "U+10C91",
      "U+10C92", "U+10C93", "U+10C94", "U+10C95", "U+10C96", "U+10C97", "U+10C98", "U+10C99",
      "U+10C9A", "U+10C9B", "U+10C9C", "U+10C9D", "U+10C9E", "U+10C9F", "U+10CA0", "U+10CA1",
      "U+10CA2", "U+10CA3", "U+10CA4", "U+10CA5", "U+10CA6", "U+10CA7", "U+10CA8", "U+10CA9",
      "U+10CAA", "U+10CAB", "U+10CAC", "U+10CAD", "U+10CAE", "U+10CAF", "U+10CB0", "U+10CB1",
      "U+10CB2", "U+10D50", "U+10D51", "U+10D52", "U+10D53", "U+10D54", "U+10D55", "U+10D56",
      "U+10D57", "U+10D58", "U+10D59", "U+10D5A", "U+10D5B", "U+10D5C", "U+10D5D", "U+10D5E",
      "U+10D5F", "U+10D60", "U+10D61", "U+10D62", "U+10D63", "U+10D64", "U+10D65", "U+118A0",
      "U+118A1", "U+118A2", "U+118A3", "U+118A4", "U+118A5", "U+118A6", "U+118A7", "U+118A8",
      "U+118A9", "U+118AA", "U+118AB", "U+118AC", "U+118AD", "U+118AE", "U+118AF", "U+118B0",
      "U+118B1", "U+118B2", "U+118B3", "U+118B4", "U+118B5", "U+118B6", "U+118B7", "U+118B8",
      "U+118B9", "U+118BA", "U+118BB", "U+118BC", "U+118BD", "U+118BE", "U+118BF", "U+16E40",
      "U+16E41", "U+16E42", "U+16E43", "U+16E44", "U+16E45", "U+16E46", "U+16E47", "U+16E48",
      "U+16E49", "U+16E4A", "U+16E4B", "U+16E4C", "U+16E4D", "U+16E4E", "U+16E4F", "U+16E50",
      "U+16E51", "U+16E52", "U+16E53", "U+16E54", "U+16E55", "U+16E56", "U+16E57", "U+16E58",
      "U+16E59", "U+16E5A", "U+16E5B", "U+16E5C", "U+16E5D", "U+16E5E", "U+16E5F", "U+16EA0",
      "U+16EA1", "U+16EA2", "U+16EA3", "U+16EA4", "U+16EA5", "U+16EA6", "U+16EA7", "U+16EA8",
      "U+16EA9", "U+16EAA", "U+16EAB", "U+16EAC", "U+16EAD", "U+16EAE", "U+16EAF", "U+16EB0",
      "U+16EB1", "U+16EB2", "U+16EB3", "U+16EB4", "U+16EB5", "U+16EB6", "U+16EB7", "U+16EB8",
      "U+1D400", "U+1D401", "U+1D402", "U+1D403", "U+1D404", "U+1D405", "U+1D406", "U+1D407",
      "U+1D408", "U+1D409", "U+1D40A", "U+1D40B", "U+1D40C", "U+1D40D", "U+1D40E", "U+1D40F",
      "U+1D410", "U+1D411", "U+1D412", "U+1D413", "U+1D414", "U+1D415", "U+1D416", "U+1D417",
      "U+1D418", "U+1D419", "U+1D434", "U+1D435", "U+1D436", "U+1D437", "U+1D438", "U+1D439",
      "U+1D43A", "U+1D43B", "U+1D43C", "U+1D43D", "U+1D43E", "U+1D43F", "U+1D440", "U+1D441",
      "U+1D442", "U+1D443", "U+1D444", "U+1D445", "U+1D446", "U+1D447", "U+1D448", "U+1D449",
      "U+1D44A", "U+1D44B", "U+1D44C", "U+1D44D", "U+1D468", "U+1D469", "U+1D46A", "U+1D46B",
      "U+1D46C", "U+1D46D", "U+1D46E", "U+1D46F", "U+1D470", "U+1D471", "U+1D472", "U+1D473",
      "U+1D474", "U+1D475", "U+1D476", "U+1D477", "U+1D478", "U+1D479", "U+1D47A", "U+1D47B",
      "U+1D47C", "U+1D47D", "U+1D47E", "U+1D47F", "U+1D480", "U+1D481", "U+1D49C", "U+1D49E",
      "U+1D49F", "U+1D4A2", "U+1D4A5", "U+1D4A6", "U+1D4A9", "U+1D4AA", "U+1D4AB", "U+1D4AC",
      "U+1D4AE", "U+1D4AF", "U+1D4B0", "U+1D4B1", "U+1D4B2", "U+1D4B3", "U+1D4B4", "U+1D4B5",
      "U+1D4D0", "U+1D4D1", "U+1D4D2", "U+1D4D3", "U+1D4D4", "U+1D4D5", "U+1D4D6", "U+1D4D7",
      "U+1D4D8", "U+1D4D9", "U+1D4DA", "U+1D4DB", "U+1D4DC", "U+1D4DD", "U+1D4DE", "U+1D4DF",
      "U+1D4E0", "U+1D4E1", "U+1D4E2", "U+1D4E3", "U+1D4E4", "U+1D4E5", "U+1D4E6", "U+1D4E7",
      "U+1D4E8", "U+1D4E9", "U+1D504", "U+1D505", "U+1D507", "U+1D508", "U+1D509", "U+1D50A",
      "U+1D50D", "U+1D50E", "U+1D50F", "U+1D510", "U+1D511", "U+1D512", "U+1D513", "U+1D514",
      "U+1D516", "U+1D517", "U+1D518", "U+1D519", "U+1D51A", "U+1D51B", "U+1D51C", "U+1D538",
      "U+1D539", "U+1D53B", "U+1D53C", "U+1D53D", "U+1D53E", "U+1D540", "U+1D541", "U+1D542",
      "U+1D543", "U+1D544", "U+1D546", "U+1D54A", "U+1D54B", "U+1D54C", "U+1D54D", "U+1D54E",
      "U+1D54F", "U+1D550", "U+1D56C", "U+1D56D", "U+1D56E", "U+1D56F", "U+1D570", "U+1D571",
      "U+1D572", "U+1D573", "U+1D574", "U+1D575", "U+1D576", "U+1D577", "U+1D578", "U+1D579",
      "U+1D57A", "U+1D57B", "U+1D57C", "U+1D57D", "U+1D57E", "U+1D57F", "U+1D580", "U+1D581",
      "U+1D582", "U+1D583", "U+1D584", "U+1D585", "U+1D5A0", "U+1D5A1", "U+1D5A2", "U+1D5A3",
      "U+1D5A4", "U+1D5A5", "U+1D5A6", "U+1D5A7", "U+1D5A8", "U+1D5A9", "U+1D5AA", "U+1D5AB",
      "U+1D5AC", "U+1D5AD", "U+1D5AE", "U+1D5AF", "U+1D5B0", "U+1D5B1", "U+1D5B2", "U+1D5B3",
      "U+1D5B4", "U+1D5B5", "U+1D5B6", "U+1D5B7", "U+1D5B8", "U+1D5B9", "U+1D5D4", "U+1D5D5",
      "U+1D5D6", "U+1D5D7", "U+1D5D8", "U+1D5D9", "U+1D5DA", "U+1D5DB", "U+1D5DC", "U+1D5DD",
      "U+1D5DE", "U+1D5DF", "U+1D5E0", "U+1D5E1", "U+1D5E2", "U+1D5E3", "U+1D5E4", "U+1D5E5",
      "U+1D5E6", "U+1D5E7", "U+1D5E8", "U+1D5E9", "U+1D5EA", "U+1D5EB", "U+1D5EC", "U+1D5ED",
      "U+1D608", "U+1D609", "U+1D60A", "U+1D60B", "U+1D60C", "U+1D60D", "U+1D60E", "U+1D60F",
      "U+1D610", "U+1D611", "U+1D612", "U+1D613", "U+1D614", "U+1D615", "U+1D616", "U+1D617",
      "U+1D618", "U+1D619", "U+1D61A", "U+1D61B", "U+1D61C", "U+1D61D", "U+1D61E", "U+1D61F",
      "U+1D620", "U+1D621", "U+1D63C", "U+1D63D", "U+1D63E", "U+1D63F", "U+1D640", "U+1D641",
      "U+1D642", "U+1D643", "U+1D644", "U+1D645", "U+1D646", "U+1D647", "U+1D648", "U+1D649",
      "U+1D64A", "U+1D64B", "U+1D64C", "U+1D64D", "U+1D64E", "U+1D64F", "U+1D650", "U+1D651",
      "U+1D652", "U+1D653", "U+1D654", "U+1D655", "U+1D670", "U+1D671", "U+1D672", "U+1D673",
      "U+1D674", "U+1D675", "U+1D676", "U+1D677", "U+1D678", "U+1D679", "U+1D67A", "U+1D67B",
      "U+1D67C", "U+1D67D", "U+1D67E", "U+1D67F", "U+1D680", "U+1D681", "U+1D682", "U+1D683",
      "U+1D684", "U+1D685", "U+1D686", "U+1D687", "U+1D688", "U+1D689", "U+1D6A8", "U+1D6A9",
      "U+1D6AA", "U+1D6AB", "U+1D6AC", "U+1D6AD", "U+1D6AE", "U+1D6AF", "U+1D6B0", "U+1D6B1",
      "U+1D6B2", "U+1D6B3", "U+1D6B4", "U+1D6B5", "U+1D6B6", "U+1D6B7", "U+1D6B8", "U+1D6B9",
      "U+1D6BA", "U+1D6BB", "U+1D6BC", "U+1D6BD", "U+1D6BE", "U+1D6BF", "U+1D6C0", "U+1D6E2",
      "U+1D6E3", "U+1D6E4", "U+1D6E5", "U+1D6E6", "U+1D6E7", "U+1D6E8", "U+1D6E9", "U+1D6EA",
      "U+1D6EB", "U+1D6EC", "U+1D6ED", "U+1D6EE", "U+1D6EF", "U+1D6F0", "U+1D6F1", "U+1D6F2",
      "U+1D6F3", "U+1D6F4", "U+1D6F5", "U+1D6F6", "U+1D6F7", "U+1D6F8", "U+1D6F9", "U+1D6FA",
      "U+1D71C", "U+1D71D", "U+1D71E", "U+1D71F", "U+1D720", "U+1D721", "U+1D722", "U+1D723",
      "U+1D724", "U+1D725", "U+1D726", "U+1D727", "U+1D728", "U+1D729", "U+1D72A", "U+1D72B",
      "U+1D72C", "U+1D72D", "U+1D72E", "U+1D72F", "U+1D730", "U+1D731", "U+1D732", "U+1D733",
      "U+1D734", "U+1D756", "U+1D757", "U+1D758", "U+1D759", "U+1D75A", "U+1D75B", "U+1D75C",
      "U+1D75D", "U+1D75E", "U+1D75F", "U+1D760", "U+1D761", "U+1D762", "U+1D763", "U+1D764",
      "U+1D765", "U+1D766", "U+1D767", "U+1D768", "U+1D769", "U+1D76A", "U+1D76B", "U+1D76C",
      "U+1D76D", "U+1D76E", "U+1D790", "U+1D791", "U+1D792", "U+1D793", "U+1D794", "U+1D795",
      "U+1D796", "U+1D797", "U+1D798", "U+1D799", "U+1D79A", "U+1D79B", "U+1D79C", "U+1D79D",
      "U+1D79E", "U+1D79F", "U+1D7A0", "U+1D7A1", "U+1D7A2", "U+1D7A3", "U+1D7A4", "U+1D7A5",
      "U+1D7A6", "U+1D7A7", "U+1D7A8", "U+1D7CA", "U+1E900", "U+1E901", "U+1E902", "U+1E903",
      "U+1E904", "U+1E905", "U+1E906", "U+1E907", "U+1E908", "U+1E909", "U+1E90A", "U+1E90B",
      "U+1E90C", "U+1E90D", "U+1E90E", "U+1E90F", "U+1E910", "U+1E911", "U+1E912", "U+1E913",
      "U+1E914", "U+1E915", "U+1E916", "U+1E917", "U+1E918", "U+1E919", "U+1E91A", "U+1E91B",
      "U+1E91C", "U+1E91D", "U+1E91E", "U+1E91F", "U+1E920", "U+1E921", "U+1F130", "U+1F131",
      "U+1F132", "U+1F133", "U+1F134", "U+1F135", "U+1F136", "U+1F137", "U+1F138", "U+1F139",
      "U+1F13A", "U+1F13B", "U+1F13C", "U+1F13D", "U+1F13E", "U+1F13F", "U+1F140", "U+1F141",
      "U+1F142", "U+1F143", "U+1F144", "U+1F145", "U+1F146", "U+1F147", "U+1F148", "U+1F149",
      "U+1F150", "U+1F151", "U+1F152", "U+1F153", "U+1F154", "U+1F155", "U+1F156", "U+1F157",
      "U+1F158", "U+1F159", "U+1F15A", "U+1F15B", "U+1F15C", "U+1F15D", "U+1F15E", "U+1F15F",
      "U+1F160", "U+1F161", "U+1F162", "U+1F163", "U+1F164", "U+1F165", "U+1F166", "U+1F167",
      "U+1F168", "U+1F169", "U+1F170", "U+1F171", "U+1F172", "U+1F173", "U+1F174", "U+1F175",
      "U+1F176", "U+1F177", "U+1F178", "U+1F179", "U+1F17A", "U+1F17B", "U+1F17C", "U+1F17D",
      "U+1F17E", "U+1F17F", "U+1F180", "U+1F181", "U+1F182", "U+1F183", "U+1F184", "U+1F185",
      "U+1F186", "U+1F187", "U+1F188", "U+1F189"
    }

\* The characters with the property Lowercase (Ll and Other_Lowercase).
LowercaseOutsideAscii ==
    {
      "U+00AA", "U+00B5", "U+00BA", "U+00DF", "U+00E0", "U+00E1", "U+00E2", "U+00E3",
      "U+00E4", "U+00E5", "U+00E6", "U+00E7", "U+00E8", "U+00E9", "U+00EA", "U+00EB",
      "U+00EC", "U+00ED", "U+00EE", "U+00EF", "U+00F0", "U+00F1", "U+00F2", "U+00F3",
      "U+00F4", "U+00F5", "U+00F6", "U+00F8", "U+00F9", "U+00FA", "U+00FB", "U+00FC",
      "U+00FD", "U+00FE", "U+00FF", "U+0101", "U+0103", "U+0105", "U+0107", "U+0109",
      "U+010B", "U+010D", "U+010F", "U+0111", "U+0113", "U+0115", "U+0117", "U+0119",
      "U+011B", "U+011D", "U+011F", "U+0121", "U+0123", "U+0125", "U+0127", "U+0129",
      "U+012B", "U+012D", "U+012F", "U+0131", "U+0133", "U+0135", "U+0137", "U+0138",
      "U+013A", "U+013C", "U+013E", "U+0140", "U+0142", "U+0144", "U+0146", "U+0148",
      "U+0149", "U+014B", "U+014D", "U+014F", "U+0151", "U+0153", "U+0155", "U+0157",
      "U+0159", "U+015B", "U+015D", "U+015F", "U+0161", "U+0163", "U+0165", "U+0167",
      "U+0169", "U+016B", "U+016D", "U+016F", "U+0171", "U+0173", "U+0175", "U+0177",
      "U+017A", "U+017C", "U+017E", "U+017F", "U+0180", "U+0183", "U+0185", "U+0188",
      "U+018C", "U+018D", "U+0192", "U+0195", "U+0199", "U+019A", "U+019B", "U+019E",
      "U+01A1", "U+01A3", "U+01A5", "U+01A8", "U+01AA", "U+01AB", "U+01AD", "U+01B0",
      "U+01B4", "U+01B6", "U+01B9", "U+01BA", "U+01BD", "U+01BE", "U+01BF", "U+01C6",
      "U+01C9", "U+01CC", "U+01CE", "U+01D0", "U+01D2", "U+01D4", "U+01D6", "U+01D8",
      "U+01DA", "U+01DC", "U+01DD", "U+01DF", "U+01E1", "U+01E3", "U+01E5", "U+01E7",
      "U+01E9", "U+01EB", "U+01ED", "U+01EF", "U+01F0", "U+01F3", "U+01F5", "U+01F9",
      "U+01FB", "U+01FD", "U+01FF", "U+0201", "U+0203", "U+0205", "U+0207", "U+0209",
      "U+020B", "U+020D", "U+020F", "U+0211", "U+0213", "U+0215", "U+0217", "U+0219",
      "U+021B", "U+021D", "U+021F", "U+0221", "U+0223", "U+0225", "U+0227", "U+0229",
      "U+022B", "U+022D", "U+022F", "U+0231", "U+0233", "U+0234", "U+0235", "U+0236",
      "U+0237", "U+0238", "U+0239", "U+023C", "U+023F", "U+0240", "U+0242", "U+0247",
      "U+0249", "U+024B", "U+024D", "U+024F", "U+0250", "U+0251", "U+0252", "U+0253",
      "U+0254", "U+0255", "U+0256", "U+0257", "U+0258", "U+0259", "U+025A", "U+025B",
      "U+025C", "U+025D", "U+025E", "U+025F", "U+0260", "U+0261", "U+0262", "U+0263",
      "U+0264", "U+0265", "U+0266", "U+0267", "U+0268", "U+0269", "U+026A", "U+026B",
      "U+026C", "U+026D", "U+026E", "U+026F", "U+0270", "U+0271", "U+0272", "U+0273",
      "U+0274", "U+0275", "U+0276", "U+0277", "U+0278", "U+0279", "U+027A", "U+027B",
      "U+027C", "U+027D", "U+027E", "U+027F", "U+0280", "U+0281", "U+0282", "U+0283",
      "U+0284", "U+0285", "U+0286", "U+0287", "U+0288", "U+0289", "U+028A", "U+028B",
      "U+028C", "U+028D", "U+028E", "U+028F", "U+0290", "U+0291", "U+0292", "U+0293",
      "U+0295", "U+0296", "U+0297", "U+0298", "U+0299", "U+029A", "U+029B", "U+029C",
      "U+029D", "U+029E", "U+029F", "U+02A0", "U+02A1", "U+02A2", "U+02A3", "U+02A4",
      "U+02A5", "U+02A6", "U+02A7", "U+02A8", "U+02A9", "U+02AA", "U+02AB", "U+02AC",
      "U+02AD", "U+02AE", "U+02AF", "U+02B0", "U+02B1", "U+02B2", "U+02B3", "U+02B4",
      "U+02B5", "U+02B6", "U+02B7", "U+02B8", "U+02C0", "U+02C1", "U+02E0", "U+02E1",
      "U+02E2", "U+02E3", "U+02E4", "U+0345", "U+0371", "U+0373", "U+0377", "U+037A",
      "U+037B", "U+037C", "U+037D", "U+0390", "U+03AC", "U+03AD", "U+03AE", "U+03AF",
      "U+03B0", "U+03B1", "U+03B2", "U+03B3", "U+03B4", "U+03B5", "U+03B6", "U+03B7",
      "U+03B8", "U+03B9", "U+03BA", "U+03BB", "U+03BC", "U+03BD", "U+03BE", "U+03BF",
      "U+03C0", "U+03C1", "U+03C2", "U+03C3", "U+03C4", "U+03C5", "U+03C6", "U+03C7",
      "U+03C8", "U+03C9", "U+03CA", "U+03CB", "U+03CC", "U+03CD", "U+03CE", "U+03D0",
      "U+03D1", "U+03D5", "U+03D6", "U+03D7", "U+03D9", "U+03DB", "U+03DD", "U+03DF",
      "U+03E1", "U+03E3", "U+03E5", "U+03E7", "U+03E9", "U+03EB", "U+03ED", "U+03EF",
      "U+03F0", "U+03F1", "U+03F2", "U+03F3", "U+03F5", "U+03F8", "U+03FB", "U+03FC",
      "U+0430", "U+0431", "U+0432", "U+0433", "U+0434", "U+0435", "U+0436", "U+0437",
      "U+0438", "U+0439", "U+043A", "U+043B", "U+043C", "U+043D", "U+043E", "U+043F",
      "U+0440", "U+0441", "U+0442", "U+0443", "U+0444", "U+0445", "U+0446", "U+0447",
      "U+0448", "U+0449", "U+044A", "U+044B", "U+044C", "U+044D", "U+044E", "U+044F",
      "U+0450", "U+0451", "U+0452", "U+0453", "U+0454", "U+0455", "U+0456", "U+0457",
      "U+0458", "U+0459", "U+045A", "U+045B", "U+045C", "U+045D", "U+045E", "U+045F",
      "U+0461", "U+0463", "U+0465", "U+0467", "U+0469", "U+046B", "U+046D", "U+046F",
      "U+0471", "U+0473", "U+0475", "U+0477", "U+0479", "U+047B", "U+047D", "U+047F",
      "U+0481", "U+048B", "U+048D", "U+048F", "U+0491", "U+0493", "U+0495", "U+0497",
      "U+0499", "U+049B", "U+049D", "U+049F", "U+04A1", "U+04A3", "U+04A5", "U+04A7",
      "U+04A9", "U+04AB", "U+04AD", "U+04AF", "U+04B1", "U+04B3", "U+04B5", "U+04B7",
      "U+04B9", "U+04BB", "U+04BD", "U+04BF", "U+04C2", "U+04C4", "U+04C6", "U+04C8",
      "U+04CA", "U+04CC", "U+04CE", "U+04CF", "U+04D1", "U+04D3", "U+04D5", "U+04D7",
      "U+04D9", "U+04DB", "U+04DD", "U+04DF", "U+04E1", "U+04E3", "U+04E5", "U+04E7",
      "U+04E9", "U+04EB", "U+04ED", "U+04EF", "U+04F1", "U+04F3", "U+04F5", "U+04F7",
      "U+04F9", "U+04FB", "U+04FD", "U+04FF", "U+0501", "U+0503", "U+0505", "U+0507",
      "U+0509", "U+050B", "U+050D", "U+050F", "U+0511", "U+0513", "U+0515", "U+0517",
      "U+0519", "U+051B", "U+051D", "U+051F", "U+0521", "U+0523", "U+0525", "U+0527",
      "U+0529", "U+052B", "U+052D", "U+052F", "U+0560", "U+0561", "U+0562", "U+0563",
      "U+0564", "U+0565", "U+0566", "U+0567", "U+0568", "U+0569", "U+056A", "U+056B",
      "U+056C", "U+056D", "U+056E", "U+056F", "U+0570", "U+0571", "U+0572", "U+0573",
      "U+0574", "U+0575", "U+0576", "U+0577", "U+0578", "U+0579", "U+057A", "U+057B",
      "U+057C", "U+057D", "U+057E", "U+057F", "U+0580", "U+0581", "U+0582", "U+0583",
      "U+0584", "U+0585", "U+0586", "U+0587", "U+0588", "U+10D0", "U+10D1", "U+10D2",
      "U+10D3", "U+10D4", "U+10D5", "U+10D6", "U+10D7", "U+10D8", "U+10D9", "U+10DA",
      "U+10DB", "U+10DC", "U+10DD", "U+10DE", "U+10DF", "U+10E0", "U+10E1", "U+10E2",
      "U+10E3", "U+10E4", "U+10E5", "U+10E6", "U+10E7", "U+10E8", "U+10E9", "U+10EA",
      "U+10EB", "U+10EC", "U+10ED", "U+10EE", "U+10EF", "U+10F0", "U+10F1", "U+10F2",
      "U+10F3", "U+10F4", "U+10F5", "U+10F6", "U+10F7", "U+10F8", "U+10F9", "U+10FA",
      "U+10FD", "U+10FE", "U+10FF", "U+13F8", "U+13F9", "U+13FA", "U+13FB", "U+13FC",
      "U+13FD", "U+1C80", "U+1C81", "U+1C82", "U+1C83", "U+1C84", "U+1C85", "U+1C86",
      "U+1C87", "U+1C88", "U+1C8A", "U+1D00", "U+1D01", "U+1D02", "U+1D03", "U+1D04",
      "U+1D05", "U+1D06", "U+1D07", "U+1D08", "U+1D09", "U+1D0A", "U+1D0B", "U+1D0C",
      "U+1D0D", "U+1D0E", "U+1D0F", "U+1D10", "U+1D11", "U+1D12", "U+1D13", "U+1D14",
      "U+1D15", "U+1D16", "U+1D17", "U+1D18", "U+1D19", "U+1D1A", "U+1D1B", "U+1D1C",
      "U+1D1D", "U+1D1E", "U+1D1F", "U+1D20", "U+1D21", "U+1D22", "U+1D23", "U+1D24",
      "U+1D25", "U+1D26", "U+1D27", "U+1D28", "U+1D29", "U+1D2A", "U+1D2B", "U+1D2C",
      "U+1D2D", "U+1D2E", "U+1D2F", "U+1D30", "U+1D31", "U+1D32", "U+1D33", "U+1D34",
      "U+1D35", "U+1D36", "U+1D37", "U+1D38", "U+1D39", "U+1D3A", "U+1D3B", "U+1D3C",
      "U+1D3D", "U+1D3E", "U+1D3F", "U+1D40", "U+1D41", "U+1D42", "U+1D43", "U+1D44",
      "U+1D45", "U+1D46", "U+1D47", "U+1D48", "U+1D49", "U+1D4A", "U+1D4B", "U+1D4C",
      "U+1D4D", "U+1D4E", "U+1D4F", "U+1D50", "U+1D51", "U+1D52", "U+1D53", "U+1D54",
      "U+1D55", "U+1D56", "U+1D57", "U+1D58", "U+1D59", "U+1D5A", "U+1D5B", "U+1D5C",
      "U+1D5D", "U+1D5E", "U+1D5F", "U+1D60", "U+1D61", "U+1D62", "U+1D63", "U+1D64",
      "U+1D65", "U+1D66", "U+1D67", "U+1D68", "U+1D69", "U+1D6A", "U+1D6B", "U+1D6C",
      "U+1D6D", "U+1D6E", "U+1D6F", "U+1D70", "U+1D71", "U+1D72", "U+1D73", "U+1D74",
      "U+1D75", "U+1D76", "U+1D77", "U+1D78", "U+1D79", "U+1D7A", "U+1D7B", "U+1D7C",
      "U+1D7D", "U+1D7E", "U+1D7F", "U+1D80", "U+1D81", "U+1D82", "U+1D83", "U+1D84",
      "U+1D85", "U+1D86", "U+1D87", "U+1D88", "U+1D89", "U+1D8A", "U+1D8B", "U+1D8C",
      "U+1D8D", "U+1D8E", "U+1D8F", "U+1D90", "U+1D91", "U+1D92", "U+1D93", "U+1D94",
      "U+1D95", "U+1D96", "U+1D97", "U+1D98", "U+1D99", "U+1D9A", "U+1D9B", "U+1D9C",
      "U+1D9D", "U+1D9E", "U+1D9F", "U+1DA0", "U+1DA1", "U+1DA2", "U+1DA3", "U+1DA4",
      "U+1DA5", "U+1DA6", "U+1DA7", "U+1DA8", "U+1DA9", "U+1DAA", "U+1DAB", "U+1DAC",
      "U+1DAD", "U+1DAE", "U+1DAF", "U+1DB0", "U+1DB1", "U+1DB2", "U+1DB3", "U+1DB4",
      "U+1DB5", "U+1DB6", "U+1DB7", "U+1DB8", "U+1DB9", "U+1DBA", "U+1DBB", "U+1DBC",
      "U+1DBD", "U+1DBE", "U+1DBF", "U+1E01", "U+1E03", "U+1E05", "U+1E07", "U+1E09",
      "U+1E0B", "U+1E0D", "U+1E0F", "U+1E11", "U+1E13", "U+1E15", "U+1E17", "U+1E19",
      "U+1E1B", "U+1E1D", "U+1E1F", "U+1E21", "U+1E23", "U+1E25", "U+1E27", "U+1E29",
      "U+1E2B", "U+1E2D", "U+1E2F", "U+1E31", "U+1E33", "U+1E35", "U+1E37", "U+1E39",
      "U+1E3B", "U+1E3D", "U+1E3F", "U+1E41", "U+1E43", "U+1E45", "U+1E47", "U+1E49",
      "U+1E4B", "U+1E4D", "U+1E4F", "U+1E51", "U+1E53", "U+1E55", "U+1E57", "U+1E59",
      "U+1E5B", "U+1E5D", "U+1E5F", "U+1E61", "U+1E63", "U+1E65", "U+1E67", "U+1E69",
      "U+1E6B", "U+1E6D", "U+1E6F", "U+1E71", "U+1E73", "U+1E75", "U+1E77", "U+1E79",
      "U+1E7B", "U+1E7D", "U+1E7F", "U+1E81", "U+1E83", "U+1E85", "U+1E87", "U+1E89",
      "U+1E8B", "U+1E8D", "U+1E8F", "U+1E91", "U+1E93", "U+1E95", "U+1E96", "U+1E97",
      "U+1E98", "U+1E99", "U+1E9A", "U+1E9B", "U+1E9C", "U+1E9D", "U+1E9F", "U+1EA1",
      "U+1EA3", "U+1EA5", "U+1EA7", "U+1EA9", "U+1EAB", "U+1EAD", "U+1EAF", "U+1EB1",
      "U+1EB3", "U+1EB5", "U+1EB7", "U+1EB9", "U+1EBB", "U+1EBD", "U+1EBF", "U+1EC1",
      "U+1EC3", "U+1EC5", "U+1EC7", "U+1EC9", "U+1ECB", "U+1ECD", "U+1ECF", "U+1ED1",
      "U+1ED3", "U+1ED5", "U+1ED7", "U+1ED9", "U+1EDB", "U+1EDD", "U+1EDF", "U+1EE1",
      "U+1EE3", "U+1EE5", "U+1EE7", "U+1EE9", "U+1EEB", "U+1EED", "U+1EEF", "U+1EF1",
      "U+1EF3", "U+1EF5", "U+1EF7", "U+1EF9", "U+1EFB", "U+1EFD", "U+1EFF", "U+1F00",
      "U+1F01", "U+1F02", "U+1F03", "U+1F04", "U+1F05", "U+1F06", "U+1F07", "U+1F10",
      "U+1F11", "U+1F12", "U+1F13", "U+1F14", "U+1F15", "U+1F20", "U+1F21", "U+1F22",
      "U+1F23", "U+1F24", "U+1F25", "U+1F26", "U+1F27", "U+1F30", "U+1F31", "U+1F32",
      "U+1F33", "U+1F34", "U+1F35", "U+1F36", "U+1F37", "U+1F40", "U+1F41", "U+1F42",
      "U+1F43", "U+1F44", "U+1F45", "U+1F50", "U+1F51", "U+1F52", "U+1F53", "U+1F54",
      "U+1F55", "U+1F56", "U+1F57", "U+1F60", "U+1F61", "U+1F62", "U+1F63", "U+1F64",
      "U+1F65", "U+1F66", "U+1F67", "U+1F70", "U+1F71", "U+1F72", "U+1F73", "U+1F74",
      "U+1F75", "U+1F76", "U+1F77", "U+1F78", "U+1F79", "U+1F7A", "U+1F7B", "U+1F7C",
      "U+1F7D", "U+1F80", "U+1F81", "U+1F82", "U+1F83", "U+1F84", "U+1F85", "U+1F86",
      "U+1F87", "U+1F90", "U+1F91", "U+1F92", "U+1F93", "U+1F94", "U+1F95", "U+1F96",
      "U+1F97", "U+1FA0", "U+1FA1", "U+1FA2", "U+1FA3", "U+1FA4", "U+1FA5", "U+1FA6",
      "U+1FA7", "U+1FB0", "U+1FB1", "U+1FB2", "U+1FB3", "U+1FB4", "U+1FB6", "U+1FB7",
      "U+1FBE", "U+1FC2", "U+1FC3", "U+1FC4", "U+1FC6", "U+1FC7", "U+1FD0", "U+1FD1",
      "U+1FD2", "U+1FD3", "U+1FD6", "U+1FD7", "U+1FE0", "U+1FE1", "U+1FE2", "U+1FE3",
      "U+1FE4", "U+1FE5", "U+1FE6", "U+1FE7", "U+1FF2", "U+1FF3", "U+1FF4", "U+1FF6",
      "U+1FF7", "U+2071", "U+207F", "U+2090", "U+2091", "U+2092", "U+2093", "U+2094",
      "U+2095", "U+2096", "U+2097", "U+2098", "U+2099", "U+209A", "U+209B", "U+209C",
      "U+210A", "U+210E", "U+210F", "U+2113", "U+212F", "U+2134", "U+2139", "U+213C",
      "U+213D", "U+2146", "U+2147", "U+2148", "U+2149", "U+214E", "U+2170", "U+2171",
      "U+2172", "U+2173", "U+2174", "U+2175", "U+2176", "U+2177", "U+2178", "U+2179",
      "U+217A", "U+217B", "U+217C", "U+217D", "U+217E", "U+217F", "U+2184", "U+24D0",
      "U+24D1", "U+24D2", "U+24D3", "U+24D4", "U+24D5", "U+24D6", "U+24D7", "U+24D8",
      "U+24D9", "U+24DA", "U+24DB", "U+24DC", "U+24DD", "U+24DE", "U+24DF", "U+24E0",
      "U+24E1", "U+24E2", "U+24E3", "U+24E4", "U+24E5", "U+24E6", "U+24E7", "U+24E8",
      "U+24E9", "U+2C30", "U+2C31", "U+2C32", "U+2C33", "U+2C34", "U+2C35", "U+2C36",
      "U+2C37", "U+2C38", "U+2C39", "U+2C3A", "U+2C3B", "U+2C3C", "U+2C3D", "U+2C3E",
      "U+2C3F", "U+2C40", "U+2C41", "U+2C42", "U+2C43", "U+2C44", "U+2C45", "U+2C46",
      "U+2C47", "U+2C48", "U+2C49", "U+2C4A", "U+2C4B", "U+2C4C", "U+2C4D", "U+2C4E",
      "U+2C4F", "U+2C50", "U+2C51", "U+2C52", "U+2C53", "U+2C54", "U+2C55", "U+2C56",
      "U+2C57", "U+2C58", "U+2C59", "U+2C5A", "U+2C5B", "U+2C5C", "U+2C5D", "U+2C5E",
      "U+2C5F", "U+2C61", "U+2C65", "U+2C66", "U+2C68", "U+2C6A", "U+2C6C", "U+2C71",
      "U+2C73", "U+2C74", "U+2C76", "U+2C77", "U+2C78", "U+2C79", "U+2C7A", "U+2C7B",
      "U+2C7C", "U+2C7D", "U+2C81", "U+2C83", "U+2C85", "U+2C87", "U+2C89", "U+2C8B",
      "U+2C8D", "U+2C8F", "U+2C91", "U+2C93", "U+2C95", "U+2C97", "U+2C99", "U+2C9B",
      "U+2C9D", "U+2C9F", "U+2CA1", "U+2CA3", "U+2CA5", "U+2CA7", "U+2CA9", "U+2CAB",
      "U+2CAD", "U+2CAF", "U+2CB1", "U+2CB3", "U+2CB5", "U+2CB7", "U+2CB9", "U+2CBB",
      "U+2CBD", "U+2CBF", "U+2CC1", "U+2CC3", "U+2CC5", "U+2CC7", "U+2CC9", "U+2CCB",
      "U+2CCD", "U+2CCF", "U+2CD1", "U+2CD3", "U+2CD5", "U+2CD7", "U+2CD9", "U+2CDB",
      "U+2CDD", "U+2CDF", "U+2CE1", "U+2CE3", "U+2CE4", "U+2CEC", "U+2CEE", "U+2CF3",
      "U+2D00", "U+2D01", "U+2D02", "U+2D03", "U+2D04", "U+2D05", "U+2D06", "U+2D07",
      "U+2D08", "U+2D09", "U+2D0A", "U+2D0B", "U+2D0C", "U+2D0D", "U+2D0E", "U+2D0F",
      "U+2D10", "U+2D11", "U+2D12", "U+2D13", "U+2D14", "U+2D15", "U+2D16", "U+2D17",
      "U+2D18", "U+2D19", "U+2D1A", "U+2D1B", "U+2D1C", "U+2D1D", "U+2D1E", "U+2D1F",
      "U+2D20", "U+2D21", "U+2D22", "U+2D23", "U+2D24", "U+2D25", "U+2D27", "U+2D2D",
      "U+A641", "U+A643", "U+A645", "U+A647", "U+A649", "U+A64B", "U+A64D", "U+A64F",
      "U+A651", "U+A653", "U+A655", "U+A657", "U+A659", "U+A65B", "U+A65D", "U+A65F",
      "U+A661", "U+A663", "U+A665", "U+A667", "U+A669", "U+A66B", "U+A66D", "U+A681",
      "U+A683", "U+A685", "U+A687", "U+A689", "U+A68B", "U+A68D", "U+A68F", "U+A691",
      "U+A693", "U+A695", "U+A697", "U+A699", "U+A69B", "U+A69C", "U+A69D", "U+A723",
      "U+A725", "U+A727", "U+A729", "U+A72B", "U+A72D", "U+A72F", "U+A730", "U+A731",
      "U+A733", "U+A735", "U+A737", "U+A739", "U+A73B", "U+A73D", "U+A73F", "U+A741",
      "U+A743", "U+A745", "U+A747", "U+A749", "U+A74B", "U+A74D", "U+A74F", "U+A751",
      "U+A753", "U+A755", "U+A757", "U+A759", "U+A75B", "U+A75D", "U+A75F", "U+A761",
      "U+A763", "U+A765", "U+A767", "U+A769", "U+A76B", "U+A76D", "U+A76F", "U+A770",
      "U+A771", "U+A772", "U+A773", "U+A774", "U+A775", "U+A776", "U+A777", "U+A778",
      "U+A77A", "U+A77C", "U+A77F", "U+A781", "U+A783", "U+A785", "U+A787", "U+A78C",
      "U+A78E", "U+A791", "U+A793", "U+A794", "U+A795", "U+A797", "U+A799", "U+A79B",
      "U+A79D", "U+A79F", "U+A7A1", "U+A7A3", "U+A7A5", "U+A7A7", "U+A7A9", "U+A7AF",
      "U+A7B5", "U+A7B7", "U+A7B9", "U+A7BB", "U+A7BD", "U+A7BF", "U+A7C1", "U+A7C3",
      "U+A7C8", "U+A7CA", "U+A7CD", "U+A7CF", "U+A7D1", "U+A7D3", "U+A7D5", "U+A7D7",
      "U+A7D9", "U+A7DB", "U+A7F6", "U+A7F8", "U+A7F9", "U+A7FA", "U+AB30", "U+AB31",
      "U+AB32", "U+AB33", "U+AB34", "U+AB35", "U+AB36", "U+AB37", "U+AB38", "U+AB39",
      "U+AB3A", "U+AB3B", "U+AB3C", "U+AB3D", "U+AB3E", "U+AB3F", "U+AB40", "U+AB41",
      "U+AB42", "U+AB43", "U+AB44", "U+AB45", "U+AB46", "U+AB47", "U+AB48", "U+AB49",
      "U+AB4A", "U+AB4B", "U+AB4C", "U+AB4D", "U+AB4E", "U+AB4F", "U+AB50", "U+AB51",
      "U+AB52", "U+AB53", "U+AB54", "U+AB55", "U+AB56", "U+AB57", "U+AB58", "U+AB59",
      "U+AB5A", "U+AB5C", "U+AB5D", "U+AB5E", "U+AB5F", "U+AB60", "U+AB61", "U+AB62",
      "U+AB63", "U+AB64", "U+AB65", "U+AB66", "U+AB67", "U+AB68", "U+AB70", "U+AB71",
      "U+AB72", "U+AB73", "U+AB74", "U+AB75", "U+AB76", "U+AB77", "U+AB78", "U+AB79",
      "U+AB7A", "U+AB7B", "U+AB7C", "U+AB7D", "U+AB7E", "U+AB7F", "U+AB80", "U+AB81",
      "U+AB82", "U+AB83", "U+AB84", "U+AB85", "U+AB86", "U+AB87", "U+AB88", "U+AB89",
      "U+AB8A", "U+AB8B", "U+AB8C", "U+AB8D", "U+AB8E", "U+AB8F", "U+AB90", "U+AB91",
      "U+AB92", "U+AB93", "U+AB94", "U+AB95", "U+AB96", "U+AB97", "U+AB98", "U+AB99",
      "U+AB9A", "U+AB9B", "U+AB9C", "U+AB9D", "U+AB9E", "U+AB9F", "U+ABA0", "U+ABA1",
      "U+ABA2", "U+ABA3", "U+ABA4", "U+ABA5", "U+ABA6", "U+ABA7", "U+ABA8", "U+ABA9",
      "U+ABAA", "U+ABAB", "U+ABAC", "U+ABAD", "U+ABAE", "U+ABAF", "U+ABB0", "U+ABB1",
      "U+ABB2", "U+ABB3", "U+ABB4", "U+ABB5", "U+ABB6", "U+ABB7", "U+ABB8", "U+ABB9",
      "U+ABBA", "U+ABBB", "U+ABBC", "U+ABBD", "U+ABBE", "U+ABBF", "U+FB00", "U+FB01",
      "U+FB02", "U+FB03", "U+FB04", "U+FB05", "U+FB06", "U+FB13", "U+FB14", "U+FB15",
      "U+FB16", "U+FB17", "U+FF41", "U+FF42", "U+FF43", "U+FF44", "U+FF45", "U+FF46",
      "U+FF47", "U+FF48", "U+FF49", "U+FF4A", "U+FF4B", "U+FF4C", "U+FF4D", "U+FF4E",
      "U+FF4F", "U+FF50", "U+FF51", "U+FF52", "U+FF53", "U+FF54", "U+FF55", "U+FF56",
      "U+FF57", "U+FF58", "U+FF59", "U+FF5A", "U+10428", "U+10429", "U+1042A", "U+1042B",
      "U+1042C", "U+1042D", "U+1042E", "U+1042F", "U+10430", "U+10431", "U+10432", "U+10433",
      "U+10434", "U+10435", "U+10436", "U+10437", "U+10438", "U+10439", "U+1043A", "U+1043B",
      "U+1043C", "U+1043D", "U+1043E", "U+1043F", "U+10440", "U+10441", "U+10442", "U+10443",
      "U+10444", "U+10445", "U+10446", "U+10447", "U+10448", "U+10449", "U+1044A", "U+1044B",
      "U+1044C", "U+1044D", "U+1044E", "U+1044F", "U+104D8", "U+104D9", "U+104DA", "U+104DB",
      "U+104DC", "U+104DD", "U+104DE", "U+104DF", "U+104E0", "U+104E1", "U+104E2", "U+104E3",
      "U+104E4", "U+104E5", "U+104E6", "U+104E7", "U+104E8", "U+104E9", "U+104EA", "U+104EB",
      "U+104EC", "U+104ED", "U+104EE", "U+104EF", "U+104F0", "U+104F1", "U+104F2", "U+104F3",
      "U+104F4", "U+104F5", "U+104F6", "U+104F7", "U+104F8", "U+104F9", "U+104FA", "U+104FB",
      "U+10597", "U+10598", "U+10599", "U+1059A", "U+1059B", "U+1059C", "U+1059D", "U+1059E",
      "U+1059F", "U+105A0", "U+105A1", "U+105A3", "U+105A4", "U+105A5", "U+105A6", "U+105A7",
      "U+105A8", "U+105A9", "U+105AA", "U+105AB", "U+105AC", "U+105AD", "U+105AE", "U+105AF",
      "U+105B0", "U+105B1", "U+105B3", "U+105B4", "U+105B5", "U+105B6", "U+105B7", "U+105B8",
      "U+105B9", "U+105BB", "U+105BC", "U+10780", "U+10783", "U+10784", "U+10785", "U+10787",
      "U+10788", "U+10789", "U+1078A", "U+1078B", "U+1078C", "U+1078D", "U+1078E", "U+1078F",
      "U+10790", "U+10791", "U+10792", "U+10793", "U+10794", "U+10795", "U+10796", "U+10797",
      "U+10798", "U+10799", "U+1079A", "U+1079B", "U+1079C", "U+1079D", "U+1079E", "U+1079F",
      "U+107A0", "U+107A1", "U+107A2", "U+107A3", "U+107A4", "U+107A5", "U+107A6", "U+107A7",
      "U+107A8", "U+107A9", "U+107AA", "U+107AB", "U+107AC", "U+107AD", "U+107AE", "U+107AF",
      "U+107B0", "U+107B2", "U+107B3", "U+107B4", "U+107B5", "U+107B6", "U+107B7", "U+107B8",
      "U+107B9", "U+107BA", "U+10CC0", "U+10CC1", "U+10CC2", "U+10CC3", "U+10CC4", "U+10CC5",
      "U+10CC6", "U+10CC7", "U+10CC8", "U+10CC9", "U+10CCA", "U+10CCB", "U+10CCC", "U+10CCD",
      "U+10CCE", "U+10CCF", "U+10CD0", "U+10CD1", "U+10CD2", "U+10CD3", "U+10CD4", "U+10CD5",
      "U+10CD6", "U+10CD7", "U+10CD8", "U+10CD9", "U+10CDA", "U+10CDB", "U+10CDC", "U+10CDD",
      "U+10CDE", "U+10CDF", "U+10CE0", "U+10CE1", "U+10CE2", "U+10CE3", "U+10CE4", "U+10CE5",
      "U+10CE6", "U+10CE7", "U+10CE8", "U+10CE9", "U+10CEA", "U+10CEB", "U+10CEC", "U+10CED",
      "U+10CEE", "U+10CEF", "U+10CF0", "U+10CF1", "U+10CF2", "U+10D70", "U+10D71", "U+10D72",
      "U+10D73", "U+10D74", "U+10D75", "U+10D76", "U+10D77", "U+10D78", "U+10D79", "U+10D7A",
      "U+10D7B", "U+10D7C", "U+10D7D", "U+10D7E", "U+10D7F", "U+10D80", "U+10D81", "U+10D82",
      "U+10D83", "U+10D84", "U+10D85", "U+118C0", "U+118C1", "U+118C2", "U+118C3", "U+118C4",
      "U+118C5", "U+118C6", "U+118C7", "U+118C8", "U+118C9", "U+118CA", "U+118CB", "U+118CC",
      "U+118CD", "U+118CE", "U+118CF", "U+118D0", "U+118D1", "U+118D2", "U+118D3", "U+118D4",
      "U+118D5", "U+118D6", "U+118D7", "U+118D8", "U+118D9", "U+118DA", "U+118DB", "U+118DC",
      "U+118DD", "U+118DE", "U+118DF", "U+16E60", "U+16E61", "U+16E62", "U+16E63", "U+16E64",
      "U+16E65", "U+16E66", "U+16E67", "U+16E68", "U+16E69", "U+16E6A", "U+16E6B", "U+16E6C",
      "U+16E6D", "U+16E6E", "U+16E6F", "U+16E70", "U+16E71", "U+16E72", "U+16E73", "U+16E74",
      "U+16E75", "U+16E76", "U+16E77", "U+16E78", "U+16E79", "U+16E7A", "U+16E7B", "U+16E7C",
      "U+16E7D", "U+16E7E", "U+16E7F", "U+16EBB", "U+16EBC", "U+16EBD", "U+16EBE", "U+16EBF",
      "U+16EC0", "U+16EC1", "U+16EC2", "U+16EC3", "U+16EC4", "U+16EC5", "U+16EC6", "U+16EC7",
      "U+16EC8", "U+16EC9", "U+16ECA", "U+16ECB", "U+16ECC", "U+16ECD", "U+16ECE", "U+16ECF",
      "U+16ED0", "U+16ED1", "U+16ED2", "U+16ED3", "U+1D41A", "U+1D41B", "U+1D41C", "U+1D41D",
      "U+1D41E", "U+1D41F", "U+1D420", "U+1D421", "U+1D422", "U+1D423", "U+1D424", "U+1D425",
      "U+1D426", "U+1D427", "U+1D428", "U+1D429", "U+1D42A", "U+1D42B", "U+1D42C", "U+1D42D",
      "U+1D42E", "U+1D42F", "U+1D430", "U+1D431", "U+1D432", "U+1D433", "U+1D44E", "U+1D44F",
      "U+1D450", "U+1D451", "U+1D452", "U+1D453", "U+1D454", "U+1D456", "U+1D457", "U+1D458",
      "U+1D459", "U+1D45A", "U+1D45B", "U+1D45C", "U+1D45D", "U+1D45E", "U+1D45F", "U+1D460",
      "U+1D461", "U+1D462", "U+1D463", "U+1D464", "U+1D465", "U+1D466", "U+1D467", "U+1D482",
      "U+1D483", "U+1D484", "U+1D485", "U+1D486", "U+1D487", "U+1D488", "U+1D489", "U+1D48A",
      "U+1D48B", "U+1D48C", "U+1D48D", "U+1D48E", "U+1D48F", "U+1D490", "U+1D491", "U+1D492",
      "U+1D493", "U+1D494", "U+1D495", "U+1D496", "U+1D497", "U+1D498", "U+1D499", "U+1D49A",
      "U+1D49B", "U+1D4B6", "U+1D4B7", "U+1D4B8", "U+1D4B9", "U+1D4BB", "U+1D4BD", "U+1D4BE",
      "U+1D4BF", "U+1D4C0", "U+1D4C1", "U+1D4C2", "U+1D4C3", "U+1D4C5", "U+1D4C6", "U+1D4C7",
      "U+1D4C8", "U+1D4C9", "U+1D4CA", "U+1D4CB", "U+1D4CC", "U+1D4CD", "U+1D4CE", "U+1D4CF",
      "U+1D4EA", "U+1D4EB", "U+1D4EC", "U+1D4ED", "U+1D4EE", "U+1D4EF", "U+1D4F0", "U+1D4F1",
      "U+1D4F2", "U+1D4F3", "U+1D4F4", "U+1D4F5", "U+1D4F6", "U+1D4F7", "U+1D4F8", "U+1D4F9",
      "U+1D4FA", "U+1D4FB", "U+1D4FC", "U+1D4FD", "U+1D4FE", "U+1D4FF", "U+1D500", "U+1D501",
      "U+1D502", "U+1D503", "U+1D51E", "U+1D51F", "U+1D520", "U+1D521", "U+1D522", "U+1D523",
      "U+1D524", "U+1D525", "U+1D526", "U+1D527", "U+1D528", "U+1D529", "U+1D52A", "U+1D52B",
      "U+1D52C", "U+1D52D", "U+1D52E", "U+1D52F", "U+1D530", "U+1D531", "U+1D532", "U+1D533",
      "U+1D534", "U+1D535", "U+1D536", "U+1D537", "U+1D552", "U+1D553", "U+1D554", "U+1D555",
      "U+1D556", "U+1D557", "U+1D558", "U+1D559", "U+1D55A", "U+1D55B", "U+1D55C", "U+1D55D",
      "U+1D55E", "U+1D55F", "U+1D560", "U+1D561", "U+1D562", "U+1D563", "U+1D564", "U+1D565",
      "U+1D566", "U+1D567", "U+1D568", "U+1D569", "U+1D56A", "U+1D56B", "U+1D586", "U+1D587",
      "U+1D588", "U+1D589", "U+1D58A", "U+1D58B", "U+1D58C", "U+1D58D", "U+1D58E", "U+1D58F",
      "U+1D590", "U+1D591", "U+1D592", "U+1D593", "U+1D594", "U+1D595", "U+1D596", "U+1D597",
      "U+1D598", "U+1D599", "U+1D59A", "U+1D59B", "U+1D59C", "U+1D59D", "U+1D59E", "U+1D59F",
      "U+1D5BA", "U+1D5BB", "U+1D5BC", "U+1D5BD", "U+1D5BE", "U+1D5BF", "U+1D5C0", "U+1D5C1",
      "U+1D5C2", "U+1D5C3", "U+1D5C4", "U+1D5C5", "U+1D5C6", "U+1D5C7", "U+1D5C8", "U+1D5C9",
      "U+1D5CA", "U+1D5CB", "U+1D5CC", "U+1D5CD", "U+1D5CE", "U+1D5CF", "U+1D5D0", "U+1D5D1",
      "U+1D5D2", "U+1D5D3", "U+1D5EE", "U+1D5EF", "U+1D5F0", "U+1D5F1", "U+1D5F2", "U+1D5F3",
      "U+1D5F4", "U+1D5F5", "U+1D5F6", "U+1D5F7", "U+1D5F8", "U+1D5F9", "U+1D5FA", "U+1D5FB",
      "U+1D5FC", "U+1D5FD", "U+1D5FE", "U+1D5FF", "U+1D600", "U+1D601", "U+1D602", "U+1D603",
      "U+1D604", "U+1D605", "U+1D606", "U+1D607", "U+1D622", "U+1D623", "U+1D624", "U+1D625",
      "U+1D626", "U+1D627", "U+1D628", "U+1D629", "U+1D62A", "U+1D62B", "U+1D62C", "U+1D62D",
      "U+1D62E", "U+1D62F", "U+1D630", "U+1D631", "U+1D632", "U+1D633", "U+1D634", "U+1D635",
      "U+1D636", "U+1D637", "U+1D638", "U+1D639", "U+1D63A", "U+1D63B", "U+1D656", "U+1D657",
      "U+1D658", "U+1D659", "U+1D65A", "U+1D65B", "U+1D65C", "U+1D65D", "U+1D65E", "U+1D65F",
      "U+1D660", "U+1D661", "U+1D662", "U+1D663", "U+1D664", "U+1D665", "U+1D666", "U+1D667",
      "U+1D668", "U+1D669", "U+1D66A", "U+1D66B", "U+1D66C", "U+1D66D", "U+1D66E", "U+1D66F",
      "U+1D68A", "U+1D68B", "U+1D68C", "U+1D68D", "U+1D68E", "U+1D68F", "U+1D690", "U+1D691",
      "U+1D692", "U+1D693", "U+1D694", "U+1D695", "U+1D696", "U+1D697", "U+1D698", "U+1D699",
      "U+1D69A", "U+1D69B", "U+1D69C", "U+1D69D", "U+1D69E", "U+1D69F", "U+1D6A0", "U+1D6A1",
      "U+1D6A2", "U+1D6A3", "U+1D6A4", "U+1D6A5", "U+1D6C2", "U+1D6C3", "U+1D6C4", "U+1D6C5",
      "U+1D6C6", "U+1D6C7", "U+1D6C8", "U+1D6C9", "U+1D6CA", "U+1D6CB", "U+1D6CC", "U+1D6CD",
      "U+1D6CE", "U+1D6CF", "U+1D6D0", "U+1D6D1", "U+1D6D2", "U+1D6D3", "U+1D6D4", "U+1D6D5",
      "U+1D6D6", "U+1D6D7", "U+1D6D8", "U+1D6D9", "U+1D6DA", "U+1D6DC", "U+1D6DD", "U+1D6DE",
      "U+1D6DF", "U+1D6E0", "U+1D6E1", "U+1D6FC", "U+1D6FD", "U+1D6FE", "U+1D6FF", "U+1D700",
      "U+1D701", "U+1D702", "U+1D703", "U+1D704", "U+1D705", "U+1D706", "U+1D707", "U+1D708",
      "U+1D709", "U+1D70A", "U+1D70B", "U+1D70C", "U+1D70D", "U+1D70E", "U+1D70F", "U+1D710",
      "U+1D711", "U+1D712", "U+1D713", "U+1D714", "U+1D716", "U+1D717", "U+1D718", "U+1D719",
      "U+1D71A", "U+1D71B", "U+1D736", "U+1D737", "U+1D738", "U+1D739", "U+1D73A", "U+1D73B",
      "U+1D73C", "U+1D73D", "U+1D73E", "U+1D73F", "U+1D740", "U+1D741", "U+1D742", "U+1D743",
      "U+1D744", "U+1D745", "U+1D746", "U+1D747", "U+1D748", "U+1D749", "U+1D74A", "U+1D74B",
      "U+1D74C", "U+1D74D", "U+1D74E", "U+1D750", "U+1D751", "U+1D752", "U+1D753", "U+1D754",
      "U+1D755", "U+1D770", "U+1D771", "U+1D772", "U+1D773", "U+1D774", "U+1D775", "U+1D776",
      "U+1D777", "U+1D778", "U+1D779", "U+1D77A", "U+1D77B", "U+1D77C", "U+1D77D", "U+1D77E",
      "U+1D77F", "U+1D780", "U+1D781", "U+1D782", "U+1D783", "U+1D784", "U+1D785", "U+1D786",
      "U+1D787", "U+1D788", "U+1D78A", "U+1D78B", "U+1D78C", "U+1D78D", "U+1D78E", "U+1D78F",
      "U+1D7AA", "U+1D7AB", "U+1D7AC", "U+1D7AD", "U+1D7AE", "U+1D7AF", "U+1D7B0", "U+1D7B1",
      "U+1D7B2", "U+1D7B3", "U+1D7B4", "U+1D7B5", "U+1D7B6", "U+1D7B7", "U+1D7B8", "U+1D7B9",
      "U+1D7BA", "U+1D7BB", "U+1D7BC", "U+1D7BD", "U+1D7BE", "U+1D7BF", "U+1D7C0", "U+1D7C1",
      "U+1D7C2", "U+1D7C4", "U+1D7C5", "U+1D7C6", "U+1D7C7", "U+1D7C8", "U+1D7C9", "U+1D7CB",
      "U+1DF00", "U+1DF01", "U+1DF02", "U+1DF03", "U+1DF04", "U+1DF05", "U+1DF06", "U+1DF07",
      "U+1DF08", "U+1DF09", "U+1DF0B", "U+1DF0C", "U+1DF0D", "U+1DF0E", "U+1DF0F", "U+1DF10",
      "U+1DF11", "U+1DF12", "U+1DF13", "U+1DF14", "U+1DF15", "U+1DF16", "U+1DF17", "U+1DF18",
      "U+1DF19", "U+1DF1A", "U+1DF1B", "U+1DF1C", "U+1DF1D", "U+1DF1E", "U+1E922", "U+1E923",
      "U+1E924", "U+1E925", "U+1E926", "U+1E927", "U+1E928", "U+1E929", "U+1E92A", "U+1E92B",
      "U+1E92C", "U+1E92D", "U+1E92E", "U+1E92F", "U+1E930", "U+1E931", "U+1E932", "U+1E933",
      "U+1E934", "U+1E935", "U+1E936", "U+1E937", "U+1E938", "U+1E939", "U+1E93A", "U+1E93B",
      "U+1E93C", "U+1E93D", "U+1E93E", "U+1E93F", "U+1E940", "U+1E941", "U+1E942", "U+1E943"
    }

\* The characters whose lowercase (char::to_lowercase) has one character.
ToLowerFrom ==
    <<
      "U+00C0", "U+00C1", "U+00C2", "U+00C3", "U+00C4", "U+00C5", "U+00C6", "U+00C7",
      "U+00C8", "U+00C9", "U+00CA", "U+00CB", "U+00CC", "U+00CD", "U+00CE", "U+00CF",
      "U+00D0", "U+00D1", "U+00D2", "U+00D3", "U+00D4", "U+00D5", "U+00D6", "U+00D8",
      "U+00D9", "U+00DA", "U+00DB", "U+00DC", "U+00DD", "U+00DE", "U+0100", "U+0102",
      "U+0104", "U+0106", "U+0108", "U+010A", "U+010C", "U+010E", "U+0110", "U+0112",
      "U+0114", "U+0116", "U+0118", "U+011A", "U+011C", "U+011E", "U+0120", "U+0122",
      "U+0124", "U+0126", "U+0128", "U+012A", "U+012C", "U+012E", "U+0132", "U+0134",
      "U+0136", "U+0139", "U+013B", "U+013D", "U+013F", "U+0141", "U+0143", "U+0145",
      "U+0147", "U+014A", "U+014C", "U+014E", "U+0150", "U+0152", "U+0154", "U+0156",
      "U+0158", "U+015A", "U+015C", "U+015E", "U+0160", "U+0162", "U+0164", "U+0166",
      "U+0168", "U+016A", "U+016C", "U+016E", "U+0170", "U+0172", "U+0174", "U+0176",
      "U+0178", "U+0179", "U+017B", "U+017D", "U+0181", "U+0182", "U+0184", "U+0186",
      "U+0187", "U+0189", "U+018A", "U+018B", "U+018E", "U+018F", "U+0190", "U+0191",
      "U+0193", "U+0194", "U+0196", "U+0197", "U+0198", "U+019C", "U+019D", "U+019F",
      "U+01A0", "U+01A2", "U+01A4", "U+01A6", "U+01A7", "U+01A9", "U+01AC", "U+01AE",
      "U+01AF", "U+01B1", "U+01B2", "U+01B3", "U+01B5", "U+01B7", "U+01B8", "U+01BC",
      "U+01C4", "U+01C5", "U+01C7", "U+01C8", "U+01CA", "U+01CB", "U+01CD", "U+01CF",
      "U+01D1", "U+01D3", "U+01D5", "U+01D7", "U+01D9", "U+01DB", "U+01DE", "U+01E0",
      "U+01E2", "U+01E4", "U+01E6", "U+01E8", "U+01EA", "U+01EC", "U+01EE", "U+01F1",
      "U+01F2", "U+01F4", "U+01F6", "U+01F7", "U+01F8", "U+01FA", "U+01FC", "U+01FE",
      "U+0200", "U+0202", "U+0204", "U+0206", "U+0208", "U+020A", "U+020C", "U+020E",
      "U+0210", "U+0212", "U+0214", "U+0216", "U+0218", "U+021A", "U+021C", "U+021E",
      "U+0220", "U+0222", "U+0224", "U+0226", "U+0228", "U+022A", "U+022C", "U+022E",
      "U+0230", "U+0232", "U+023A", "U+023B", "U+023D", "U+023E", "U+0241", "U+0243",
      "U+0244", "U+0245", "U+0246", "U+0248", "U+024A", "U+024C", "U+024E", "U+0370",
      "U+0372", "U+0376", "U+037F", "U+0386", "U+0388", "U+0389", "U+038A", "U+038C",
      "U+038E", "U+038F", "U+0391", "U+0392", "U+0393", "U+0394", "U+0395", "U+0396",
      "U+0397", "U+0398", "U+0399", "U+039A", "U+039B", "U+039C", "U+039D", "U+039E",
      "U+039F", "U+03A0", "U+03A1", "U+03A3", "U+03A4", "U+03A5", "U+03A6", "U+03A7",
      "U+03A8", "U+03A9", "U+03AA", "U+03AB", "U+03CF", "U+03D8", "U+03DA", "U+03DC",
      "U+03DE", "U+03E0", "U+03E2", "U+03E4", "U+03E6", "U+03E8", "U+03EA", "U+03EC",
      "U+03EE", "U+03F4", "U+03F7", "U+03F9", "U+03FA", "U+03FD", "U+03FE", "U+03FF",
      "U+0400", "U+0401", "U+0402", "U+0403", "U+0404", "U+0405", "U+0406", "U+0407",
      "U+0408", "U+0409", "U+040A", "U+040B", "U+040C", "U+040D", "U+040E", "U+040F",
      "U+0410", "U+0411", "U+0412", "U+0413", "U+0414", "U+0415", "U+0416", "U+0417",
      "U+0418", "U+0419", "U+041A", "U+041B", "U+041C", "U+041D", "U+041E", "U+041F",
      "U+0420", "U+0421", "U+0422", "U+0423", "U+0424", "U+0425", "U+0426", "U+0427",
      "U+0428", "U+0429", "U+042A", "U+042B", "U+042C", "U+042D", "U+042E", "U+042F",
      "U+0460", "U+0462", "U+0464", "U+0466", "U+0468", "U+046A", "U+046C", "U+046E",
      "U+0470", "U+0472", "U+0474", "U+0476", "U+0478", "U+047A", "U+047C", "U+047E",
      "U+0480", "U+048A", "U+048C", "U+048E", "U+0490", "U+0492", "U+0494", "U+0496",
      "U+0498", "U+049A", "U+049C", "U+049E", "U+04A0", "U+04A2", "U+04A4", "U+04A6",
      "U+04A8", "U+04AA", "U+04AC", "U+04AE", "U+04B0", "U+04B2", "U+04B4", "U+04B6",
      "U+04B8", "U+04BA", "U+04BC", "U+04BE", "U+04C0", "U+04C1", "U+04C3", "U+04C5",
      "U+04C7", "U+04C9", "U+04CB", "U+04CD", "U+04D0", "U+04D2", "U+04D4", "U+04D6",
      "U+04D8", "U+04DA", "U+04DC", "U+04DE", "U+04E0", "U+04E2", "U+04E4", "U+04E6",
      "U+04E8", "U+04EA", "U+04EC", "U+04EE", "U+04F0", "U+04F2", "U+04F4", "U+04F6",
      "U+04F8", "U+04FA", "U+04FC", "U+04FE", "U+0500", "U+0502", "U+0504", "U+0506",
      "U+0508", "U+050A", "U+050C", "U+050E", "U+0510", "U+0512", "U+0514", "U+0516",
      "U+0518", "U+051A", "U+051C", "U+051E", "U+0520", "U+0522", "U+0524", "U+0526",
      "U+0528", "U+052A", "U+052C", "U+052E", "U+0531", "U+0532", "U+0533", "U+0534",
      "U+0535", "U+0536", "U+0537", "U+0538", "U+0539", "U+053A", "U+053B", "U+053C",
      "U+053D", "U+053E", "U+053F", "U+0540", "U+0541", "U+0542", "U+0543", "U+0544",
      "U+0545", "U+0546", "U+0547", "U+0548", "U+0549", "U+054A", "U+054B", "U+054C",
      "U+054D", "U+054E", "U+054F", "U+0550", "U+0551", "U+0552", "U+0553", "U+0554",
      "U+0555", "U+0556", "U+10A0", "U+10A1", "U+10A2", "U+10A3", "U+10A4", "U+10A5",
      "U+10A6", "U+10A7", "U+10A8", "U+10A9", "U+10AA", "U+10AB", "U+10AC", "U+10AD",
      "U+10AE", "U+10AF", "U+10B0", "U+10B1", "U+10B2", "U+10B3", "U+10B4", "U+10B5",
      "U+10B6", "U+10B7", "U+10B8", "U+10B9", "U+10BA", "U+10BB", "U+10BC", "U+10BD",
      "U+10BE", "U+10BF", "U+10C0", "U+10C1", "U+10C2", "U+10C3", "U+10C4", "U+10C5",
      "U+10C7", "U+10CD", "U+13A0", "U+13A1", "U+13A2", "U+13A3", "U+13A4", "U+13A5",
      "U+13A6", "U+13A7", "U+13A8", "U+13A9", "U+13AA", "U+13AB", "U+13AC", "U+13AD",
      "U+13AE", "U+13AF", "U+13B0", "U+13B1", "U+13B2", "U+13B3", "U+13B4", "U+13B5",
      "U+13B6", "U+13B7", "U+13B8", "U+13B9", "U+13BA", "U+13BB", "U+13BC", "U+13BD",
      "U+13BE", "U+13BF", "U+13C0", "U+13C1", "U+13C2", "U+13C3", "U+13C4", "U+13C5",
      "U+13C6", "U+13C7", "U+13C8", "U+13C9", "U+13CA", "U+13CB", "U+13CC", "U+13CD",
      "U+13CE", "U+13CF", "U+13D0", "U+13D1", "U+13D2", "U+13D3", "U+13D4", "U+13D5",
      "U+13D6", "U+13D7", "U+13D8", "U+13D9", "U+13DA", "U+13DB", "U+13DC", "U+13DD",
      "U+13DE", "U+13DF", "U+13E0", "U+13E1", "U+13E2", "U+13E3", "U+13E4", "U+13E5",
      "U+13E6", "U+13E7", "U+13E8", "U+13E9", "U+13EA", "U+13EB", "U+13EC", "U+13ED",
      "U+13EE", "U+13EF", "U+13F0", "U+13F1", "U+13F2", "U+13F3", "U+13F4", "U+13F5",
      "U+1C89", "U+1C90", "U+1C91", "U+1C92", "U+1C93", "U+1C94", "U+1C95", "U+1C96",
      "U+1C97", "U+1C98", "U+1C99", "U+1C9A", "U+1C9B", "U+1C9C", "U+1C9D", "U+1C9E",
      "U+1C9F", "U+1CA0", "U+1CA1", "U+1CA2", "U+1CA3", "U+1CA4", "U+1CA5", "U+1CA6",
      "U+1CA7", "U+1CA8", "U+1CA9", "U+1CAA", "U+1CAB", "U+1CAC", "U+1CAD", "U+1CAE",
      "U+1CAF", "U+1CB0", "U+1CB1", "U+1CB2", "U+1CB3", "U+1CB4", "U+1CB5", "U+1CB6",
      "U+1CB7", "U+1CB8", "U+1CB9", "U+1CBA", "U+1CBD", "U+1CBE", "U+1CBF", "U+1E00",
      "U+1E02", "U+1E04", "U+1E06", "U+1E08", "U+1E0A", "U+1E0C", "U+1E0E", "U+1E10",
      "U+1E12", "U+1E14", "U+1E16", "U+1E18", "U+1E1A", "U+1E1C", "U+1E1E", "U+1E20",
      "U+1E22", "U+1E24", "U+1E26", "U+1E28", "U+1E2A", "U+1E2C", "U+1E2E", "U+1E30",
      "U+1E32", "U+1E34", "U+1E36", "U+1E38", "U+1E3A", "U+1E3C", "U+1E3E", "U+1E40",
      "U+1E42", "U+1E44", "U+1E46", "U+1E48", "U+1E4A", "U+1E4C", "U+1E4E", "U+1E50",
      "U+1E52", "U+1E54", "U+1E56", "U+1E58", "U+1E5A", "U+1E5C", "U+1E5E", "U+1E60",
      "U+1E62", "U+1E64", "U+1E66", "U+1E68", "U+1E6A", "U+1E6C", "U+1E6E", "U+1E70",
      "U+1E72", "U+1E74", "U+1E76", "U+1E78", "U+1E7A", "U+1E7C", "U+1E7E", "U+1E80",
      "U+1E82", "U+1E84", "U+1E86", "U+1E88", "U+1E8A", "U+1E8C", "U+1E8E", "U+1E90",
      "U+1E92", "U+1E94", "U+1E9E", "U+1EA0", "U+1EA2", "U+1EA4", "U+1EA6", "U+1EA8",
      "U+1EAA", "U+1EAC", "U+1EAE", "U+1EB0", "U+1EB2", "U+1EB4", "U+1EB6", "U+1EB8",
      "U+1EBA", "U+1EBC", "U+1EBE", "U+1EC0", "U+1EC2", "U+1EC4", "U+1EC6", "U+1EC8",
      "U+1ECA", "U+1ECC", "U+1ECE", "U+1ED0", "U+1ED2", "U+1ED4", "U+1ED6", "U+1ED8",
      "U+1EDA", "U+1EDC", "U+1EDE", "U+1EE0", "U+1EE2", "U+1EE4", "U+1EE6", "U+1EE8",
      "U+1EEA", "U+1EEC", "U+1EEE", "U+1EF0", "U+1EF2", "U+1EF4", "U+1EF6", "U+1EF8",
      "U+1EFA", "U+1EFC", "U+1EFE", "U+1F08", "U+1F09", "U+1F0A", "U+1F0B", "U+1F0C",
      "U+1F0D", "U+1F0E", "U+1F0F", "U+1F18", "U+1F19", "U+1F1A", "U+1F1B", "U+1F1C",
      "U+1F1D", "U+1F28", "U+1F29", "U+1F2A", "U+1F2B", "U+1F2C", "U+1F2D", "U+1F2E",
      "U+1F2F", "U+1F38", "U+1F39", "U+1F3A", "U+1F3B", "U+1F3C", "U+1F3D", "U+1F3E",
      "U+1F3F", "U+1F48", "U+1F49", "U+1F4A", "U+1F4B", "U+1F4C", "U+1F4D", "U+1F59",
      "U+1F5B", "U+1F5D", "U+1F5F", "U+1F68", "U+1F69", "U+1F6A", "U+1F6B", "U+1F6C",
      "U+1F6D", "U+1F6E", "U+1F6F", "U+1F88", "U+1F89", "U+1F8A", "U+1F8B", "U+1F8C",
      "U+1F8D", "U+1F8E", "U+1F8F", "U+1F98", "U+1F99", "U+1F9A", "U+1F9B", "U+1F9C",
      "U+1F9D", "U+1F9E", "U+1F9F", "U+1FA8", "U+1FA9", "U+1FAA", "U+1FAB", "U+1FAC",
      "U+1FAD", "U+1FAE", "U+1FAF", "U+1FB8", "U+1FB9", "U+1FBA", "U+1FBB", "U+1FBC",
      "U+1FC8", "U+1FC9", "U+1FCA", "U+1FCB", "U+1FCC", "U+1FD8", "U+1FD9", "U+1FDA",
      "U+1FDB", "U+1FE8", "U+1FE9", "U+1FEA", "U+1FEB", "U+1FEC", "U+1FF8", "U+1FF9",
      "U+1FFA", "U+1FFB", "U+1FFC", "U+2126", "U+212A", "U+212B", "U+2132", "U+2160",
      "U+2161", "U+2162", "U+2163", "U+2164", "U+2165", "U+2166", "U+2167", "U+2168",
      "U+2169", "U+216A", "U+216B", "U+216C", "U+216D", "U+216E", "U+216F", "U+2183",
      "U+24B6", "U+24B7", "U+24B8", "U+24B9", "U+24BA", "U+24BB", "U+24BC", "U+24BD",
      "U+24BE", "U+24BF", "U+24C0", "U+24C1", "U+24C2", "U+24C3", "U+24C4", "U+24C5",
      "U+24C6", "U+24C7", "U+24C8", "U+24C9", "U+24CA", "U+24CB", "U+24CC", "U+24CD",
      "U+24CE", "U+24CF", "U+2C00", "U+2C01", "U+2C02", "U+2C03", "U+2C04", "U+2C05",
      "U+2C06", "U+2C07", "U+2C08", "U+2C09", "U+2C0A", "U+2C0B", "U+2C0C", "U+2C0D",
      "U+2C0E", "U+2C0F", "U+2C10", "U+2C11", "U+2C12", "U+2C13", "U+2C14", "U+2C15",
      "U+2C16", "U+2C17", "U+2C18", "U+2C19", "U+2C1A", "U+2C1B", "U+2C1C", "U+2C1D",
      "U+2C1E", "U+2C1F", "U+2C20", "U+2C21", "U+2C22", "U+2C23", "U+2C24", "U+2C25",
      "U+2C26", "U+2C27", "U+2C28", "U+2C29", "U+2C2A", "U+2C2B", "U+2C2C", "U+2C2D",
      "U+2C2E", "U+2C2F", "U+2C60", "U+2C62", "U+2C63", "U+2C64", "U+2C67", "U+2C69",
      "U+2C6B", "U+2C6D", "U+2C6E", "U+2C6F", "U+2C70", "U+2C72", "U+2C75", "U+2C7E",
      "U+2C7F", "U+2C80", "U+2C82", "U+2C84", "U+2C86", "U+2C88", "U+2C8A", "U+2C8C",
      "U+2C8E", "U+2C90", "U+2C92", "U+2C94", "U+2C96", "U+2C98", "U+2C9A", "U+2C9C",
      "U+2C9E", "U+2CA0", "U+2CA2", "U+2CA4", "U+2CA6", "U+2CA8", "U+2CAA", "U+2CAC",
      "U+2CAE", "U+2CB0", "U+2CB2", "U+2CB4", "U+2CB6", "U+2CB8", "U+2CBA", "U+2CBC",
      "U+2CBE", "U+2CC0", "U+2CC2", "U+2CC4", "U+2CC6", "U+2CC8", "U+2CCA", "U+2CCC",
      "U+2CCE", "U+2CD0", "U+2CD2", "U+2CD4", "U+2CD6", "U+2CD8", "U+2CDA", "U+2CDC",
      "U+2CDE", "U+2CE0", "U+2CE2", "U+2CEB", "U+2CED", "U+2CF2", "U+A640", "U+A642",
      "U+A644", "U+A646", "U+A648", "U+A64A", "U+A64C", "U+A64E", "U+A650", "U+A652",
      "U+A654", "U+A656", "U+A658", "U+A65A", "U+A65C", "U+A65E", "U+A660", "U+A662",
      "U+A664", "U+A666", "U+A668", "U+A66A", "U+A66C", "U+A680", "U+A682", "U+A684",
      "U+A686", "U+A688", "U+A68A", "U+A68C", "U+A68E", "U+A690", "U+A692", "U+A694",
      "U+A696", "U+A698", "U+A69A", "U+A722", "U+A724", "U+A726", "U+A728", "U+A72A",
      "U+A72C", "U+A72E", "U+A732", "U+A734", "U+A736", "U+A738", "U+A73A", "U+A73C",
      "U+A73E", "U+A740", "U+A742", "U+A744", "U+A746", "U+A748", "U+A74A", "U+A74C",
      "U+A74E", "U+A750", "U+A752", "U+A754", "U+A756", "U+A758", "U+A75A", "U+A75C",
      "U+A75E", "U+A760", "U+A762", "U+A764", "U+A766", "U+A768", "U+A76A", "U+A76C",
      "U+A76E", "U+A779", "U+A77B", "U+A77D", "U+A77E", "U+A780", "U+A782", "U+A784",
      "U+A786", "U+A78B", "U+A78D", "U+A790", "U+A792", "U+A796", "U+A798", "U+A79A",
      "U+A79C", "U+A79E", "U+A7A0", "U+A7A2", "U+A7A4", "U+A7A6", "U+A7A8", "U+A7AA",
      "U+A7AB", "U+A7AC", "U+A7AD", "U+A7AE", "U+A7B0", "U+A7B1", "U+A7B2", "U+A7B3",
      "U+A7B4", "U+A7B6", "U+A7B8", "U+A7BA", "U+A7BC", "U+A7BE", "U+A7C0", "U+A7C2",
      "U+A7C4", "U+A7C5", "U+A7C6", "U+A7C7", "U+A7C9", "U+A7CB", "U+A7CC", "U+A7CE",
      "U+A7D0", "U+A7D2", "U+A7D4", "U+A7D6", "U+A7D8", "U+A7DA", "U+A7DC", "U+A7F5",
      "U+FF21", "U+FF22", "U+FF23", "U+FF24", "U+FF25", "U+FF26", "U+FF27", "U+FF28",
      "U+FF29", "U+FF2A", "U+FF2B", "U+FF2C", "U+FF2D", "U+FF2E", "U+FF2F", "U+FF30",
      "U+FF31", "U+FF32", "U+FF33", "U+FF34", "U+FF35", "U+FF36", "U+FF37", "U+FF38",
      "U+FF39", "U+FF3A", "U+10400", "U+10401", "U+10402", "U+10403", "U+10404", "U+10405",
      "U+10406", "U+10407", "U+10408", "U+10409", "U+1040A", "U+1040B", "U+1040C", "U+1040D",
      "U+1040E", "U+1040F", "U+10410", "U+10411", "U+10412", "U+10413", "U+10414", "U+10415",
      "U+10416", "U+10417", "U+10418", "U+10419", "U+1041A", "U+1041B", "U+1041C", "U+1041D",
      "U+1041E", "U+1041F", "U+10420", "U+10421", "U+10422", "U+10423", "U+10424", "U+10425",
      "U+10426", "U+10427", "U+104B0", "U+104B1", "U+104B2", "U+104B3", "U+104B4", "U+104B5",
      "U+104B6", "U+104B7", "U+104B8", "U+104B9", "U+104BA", "U+104BB", "U+104BC", "U+104BD",
      "U+104BE", "U+104BF", "U+104C0", "U+104C1", "U+104C2", "U+104C3", "U+104C4", "U+104C5",
      "U+104C6", "U+104C7", "U+104C8", "U+104C9", "U+104CA", "U+104CB", "U+104CC", "U+104CD",
      "U+104CE", "U+104CF", "U+104D0", "U+104D1", "U+104D2", "U+104D3", "U+10570", "U+10571",
      "U+10572", "U+10573", "U+10574", "U+10575", "U+10576", "U+10577", "U+10578", "U+10579",
      "U+1057A", "U+1057C", "U+1057D", "U+1057E", "U+1057F", "U+10580", "U+10581", "U+10582",
      "U+10583", "U+10584", "U+10585", "U+10586", "U+10587", "U+10588", "U+10589", "U+1058A",
      "U+1058C", "U+1058D", "U+1058E", "U+1058F", "U+10590", "U+10591", "U+10592", "U+10594",
      "U+10595", "U+10C80", "U+10C81", "U+10C82", "U+10C83", "U+10C84", "U+10C85", "U+10C86",
      "U+10C87", "U+10C88", "U+10C89", "U+10C8A", "U+10C8B", "U+10C8C", "U+10C8D", "U+10C8E",
      "U+10C8F", "U+10C90", "U+10C91", "U+10C92", "U+10C93", "U+10C94", "U+10C95", "U+10C96",
      "U+10C97", "U+10C98", "U+10C99", "U+10C9A", "U+10C9B", "U+10C9C", "U+10C9D", "U+10C9E",
      "U+10C9F", "U+10CA0", "U+10CA1", "U+10CA2", "U+10CA3", "U+10CA4", "U+10CA5", "U+10CA6",
      "U+10CA7", "U+10CA8", "U+10CA9", "U+10CAA", "U+10CAB", "U+10CAC", "U+10CAD", "U+10CAE",
      "U+10CAF", "U+10CB0", "U+10CB1", "U+10CB2", "U+10D50", "U+10D51", "U+10D52", "U+10D53",
      "U+10D54", "U+10D55", "U+10D56", "U+10D57", "U+10D58", "U+10D59", "U+10D5A", "U+10D5B",
      "U+10D5C", "U+10D5D", "U+10D5E", "U+10D5F", "U+10D60", "U+10D61", "U+10D62", "U+10D63",
      "U+10D64", "U+10D65", "U+118A0", "U+118A1", "U+118A2", "U+118A3", "U+118A4", "U+118A5",
      "U+118A6", "U+118A7", "U+118A8", "U+118A9", "U+118AA", "U+118AB", "U+118AC", "U+118AD",
      "U+118AE", "U+118AF", "U+118B0", "U+118B1", "U+118B2", "U+118B3", "U+118B4", "U+118B5",
      "U+118B6", "U+118B7", "U+118B8", "U+118B9", "U+118BA", "U+118BB", "U+118BC", "U+118BD",
      "U+118BE", "U+118BF", "U+16E40", "U+16E41", "U+16E42", "U+16E43", "U+16E44", "U+16E45",
      "U+16E46", "U+16E47", "U+16E48", "U+16E49", "U+16E4A", "U+16E4B", "U+16E4C", "U+16E4D",
      "U+16E4E", "U+16E4F", "U+16E50", "U+16E51", "U+16E52", "U+16E53", "U+16E54", "U+16E55",
      "U+16E56", "U+16E57", "U+16E58", "U+16E59", "U+16E5A", "U+16E5B", "U+16E5C", "U+16E5D",
      "U+16E5E", "U+16E5F", "U+16EA0", "U+16EA1", "U+16EA2", "U+16EA3", "U+16EA4", "U+16EA5",
      "U+16EA6", "U+16EA7", "U+16EA8", "U+16EA9", "U+16EAA", "U+16EAB", "U+16EAC", "U+16EAD",
      "U+16EAE", "U+16EAF", "U+16EB0", "U+16EB1", "U+16EB2", "U+16EB3", "U+16EB4", "U+16EB5",
      "U+16EB6", "U+16EB7", "U+16EB8", "U+1E900", "U+1E901", "U+1E902", "U+1E903", "U+1E904",
      "U+1E905", "U+1E906", "U+1E907", "U+1E908", "U+1E909", "U+1E90A", "U+1E90B", "U+1E90C",
      "U+1E90D", "U+1E90E", "U+1E90F", "U+1E910", "U+1E911", "U+1E912", "U+1E913", "U+1E914",
      "U+1E915", "U+1E916", "U+1E917", "U+1E918", "U+1E919", "U+1E91A", "U+1E91B", "U+1E91C",
      "U+1E91D", "U+1E91E", "U+1E91F", "U+1E920", "U+1E921"
    >>

\* Of each, in the same order, the lowercase (char::to_lowercase).
ToLowerTo ==
    <<
      "U+00E0", "U+00E1", "U+00E2", "U+00E3", "U+00E4", "U+00E5", "U+00E6", "U+00E7",
      "U+00E8", "U+00E9", "U+00EA", "U+00EB", "U+00EC", "U+00ED", "U+00EE", "U+00EF",
      "U+00F0", "U+00F1", "U+00F2", "U+00F3", "U+00F4", "U+00F5", "U+00F6", "U+00F8",
      "U+00F9", "U+00FA", "U+00FB", "U+00FC", "U+00FD", "U+00FE", "U+0101", "U+0103",
      "U+0105", "U+0107", "U+0109", "U+010B", "U+010D", "U+010F", "U+0111", "U+0113",
      "U+0115", "U+0117", "U+0119", "U+011B", "U+011D", "U+011F", "U+0121", "U+0123",
      "U+0125", "U+0127", "U+0129", "U+012B", "U+012D", "U+012F", "U+0133", "U+0135",
      "U+0137", "U+013A", "U+013C", "U+013E", "U+0140", "U+0142", "U+0144", "U+0146",
      "U+0148", "U+014B", "U+014D", "U+014F", "U+0151", "U+0153", "U+0155", "U+0157",
      "U+0159", "U+015B", "U+015D", "U+015F", "U+0161", "U+0163", "U+0165", "U+0167",
      "U+0169", "U+016B", "U+016D", "U+016F", "U+0171", "U+0173", "U+0175", "U+0177",
      "U+00FF", "U+017A", "U+017C", "U+017E", "U+0253", "U+0183", "U+0185", "U+0254",
      "U+0188", "U+0256", "U+0257", "U+018C", "U+01DD", "U+0259", "U+025B", "U+0192",
      "U+0260", "U+0263", "U+0269", "U+0268", "U+0199", "U+026F", "U+0272", "U+0275",
      "U+01A1", "U+01A3", "U+01A5", "U+0280", "U+01A8", "U+0283", "U+01AD", "U+0288",
      "U+01B0", "U+028A", "U+028B", "U+01B4", "U+01B6", "U+0292", "U+01B9", "U+01BD",
      "U+01C6", "U+01C6", "U+01C9", "U+01C9", "U+01CC", "U+01CC", "U+01CE", "U+01D0",
      "U+01D2", "U+01D4", "U+01D6", "U+01D8", "U+01DA", "U+01DC", "U+01DF", "U+01E1",
      "U+01E3", "U+01E5", "U+01E7", "U+01E9", "U+01EB", "U+01ED", "U+01EF", "U+01F3",
      "U+01F3", "U+01F5", "U+0195", "U+01BF", "U+01F9", "U+01FB", "U+01FD", "U+01FF",
      "U+0201", "U+0203", "U+0205", "U+0207", "U+0209", "U+020B", "U+020D", "U+020F",
      "U+0211", "U+0213", "U+0215", "U+0217", "U+0219", "U+021B", "U+021D", "U+021F",
      "U+019E", "U+0223", "U+0225", "U+0227", "U+0229", "U+022B", "U+022D", "U+022F",
      "U+0231", "U+0233", "U+2C65", "U+023C", "U+019A", "U+2C66", "U+0242", "U+0180",
      "U+0289", "U+028C", "U+0247", "U+0249", "U+024B", "U+024D", "U+024F", "U+0371",
      "U+0373", "U+0377", "U+03F3", "U+03AC", "U+03AD", "U+03AE", "U+03AF", "U+03CC",
      "U+03CD", "U+03CE", "U+03B1", "U+03B2", "U+03B3", "U+03B4", "U+03B5", "U+03B6",
      "U+03B7", "U+03B8", "U+03B9", "U+03BA", "U+03BB", "U+03BC", "U+03BD", "U+03BE",
      "U+03BF", "U+03C0", "U+03C1", "U+03C3", "U+03C4", "U+03C5", "U+03C6", "U+03C7",
      "U+03C8", "U+03C9", "U+03CA", "U+03CB", "U+03D7", "U+03D9", "U+03DB", "U+03DD",
      "U+03DF", "U+03E1", "U+03E3", "U+03E5", "U+03E7", "U+03E9", "U+03EB", "U+03ED",
      "U+03EF", "U+03B8", "U+03F8", "U+03F2", "U+03FB", "U+037B", "U+037C", "U+037D",
      "U+0450", "U+0451", "U+0452", "U+0453", "U+0454", "U+0455", "U+0456", "U+0457",
      "U+0458", "U+0459", "U+045A", "U+045B", "U+045C", "U+045D", "U+045E", "U+045F",
      "U+0430", "U+0431", "U+0432", "U+0433", "U+0434", "U+0435", "U+0436", "U+0437",
      "U+0438", "U+0439", "U+043A", "U+043B", "U+043C", "U+043D", "U+043E", "U+043F",
      "U+0440", "U+0441", "U+0442", "U+0443", "U+0444", "U+0445", "U+0446", "U+0447",
      "U+0448", "U+0449", "U+044A", "U+044B", "U+044C", "U+044D", "U+044E", "U+044F",
      "U+0461", "U+0463", "U+0465", "U+0467", "U+0469", "U+046B", "U+046D", "U+046F",
      "U+0471", "U+0473", "U+0475", "U+0477", "U+0479", "U+047B", "U+047D", "U+047F",
      "U+0481", "U+048B", "U+048D", "U+048F", "U+0491", "U+0493", "U+0495", "U+0497",
      "U+0499", "U+049B", "U+049D", "U+049F", "U+04A1", "U+04A3", "U+04A5", "U+04A7",
      "U+04A9", "U+04AB", "U+04AD", "U+04AF", "U+04B1", "U+04B3", "U+04B5", "U+04B7",
      "U+04B9", "U+04BB", "U+04BD", "U+04BF", "U+04CF", "U+04C2", "U+04C4", "U+04C6",
      "U+04C8", "U+04CA", "U+04CC", "U+04CE", "U+04D1", "U+04D3", "U+04D5", "U+04D7",
      "U+04D9", "U+04DB", "U+04DD", "U+04DF", "U+04E1", "U+04E3", "U+04E5", "U+04E7",
      "U+04E9", "U+04EB", "U+04ED", "U+04EF", "U+04F1", "U+04F3", "U+04F5", "U+04F7",
      "U+04F9", "U+04FB", "U+04FD", "U+04FF", "U+0501", "U+0503", "U+0505", "U+0507",
      "U+0509", "U+050B", "U+050D", "U+050F", "U+0511", "U+0513", "U+0515", "U+0517",
      "U+0519", "U+051B", "U+051D", "U+051F", "U+0521", "U+0523", "U+0525", "U+0527",
      "U+0529", "U+052B", "U+052D", "U+052F", "U+0561", "U+0562", "U+0563", "U+0564",
      "U+0565", "U+0566", "U+0567", "U+0568", "U+0569", "U+056A", "U+056B", "U+056C",
      "U+056D", "U+056E", "U+056F", "U+0570", "U+0571", "U+0572", "U+0573", "U+0574",
      "U+0575", "U+0576", "U+0577", "U+0578", "U+0579", "U+057A", "U+057B", "U+057C",
      "U+057D", "U+057E", "U+057F", "U+0580", "U+0581", "U+0582", "U+0583", "U+0584",
      "U+0585", "U+0586", "U+2D00", "U+2D01", "U+2D02", "U+2D03", "U+2D04", "U+2D05",
      "U+2D06", "U+2D07", "U+2D08", "U+2D09", "U+2D0A", "U+2D0B", "U+2D0C", "U+2D0D",
      "U+2D0E", "U+2D0F", "U+2D10", "U+2D11", "U+2D12", "U+2D13", "U+2D14", "U+2D15",
      "U+2D16", "U+2D17", "U+2D18", "U+2D19", "U+2D1A", "U+2D1B", "U+2D1C", "U+2D1D",
      "U+2D1E", "U+2D1F", "U+2D20", "U+2D21", "U+2D22", "U+2D23", "U+2D24", "U+2D25",
      "U+2D27", "U+2D2D", "U+AB70", "U+AB71", "U+AB72", "U+AB73", "U+AB74", "U+AB75",
      "U+AB76", "U+AB77", "U+AB78", "U+AB79", "U+AB7A", "U+AB7B", "U+AB7C", "U+AB7D",
      "U+AB7E", "U+AB7F", "U+AB80", "U+AB81", "U+AB82", "U+AB83", "U+AB84", "U+AB85",
      "U+AB86", "U+AB87", "U+AB88", "U+AB89", "U+AB8A", "U+AB8B", "U+AB8C", "U+AB8D",
      "U+AB8E", "U+AB8F", "U+AB90", "U+AB91", "U+AB92", "U+AB93", "U+AB94", "U+AB95",
      "U+AB96", "U+AB97", "U+AB98", "U+AB99", "U+AB9A", "U+AB9B", "U+AB9C", "U+AB9D",
      "U+AB9E", "U+AB9F", "U+ABA0", "U+ABA1", "U+ABA2", "U+ABA3", "U+ABA4", "U+ABA5",
      "U+ABA6", "U+ABA7", "U+ABA8", "U+ABA9", "U+ABAA", "U+ABAB", "U+ABAC", "U+ABAD",
      "U+ABAE", "U+ABAF", "U+ABB0", "U+ABB1", "U+ABB2", "U+ABB3", "U+ABB4", "U+ABB5",
      "U+ABB6", "U+ABB7", "U+ABB8", "U+ABB9", "U+ABBA", "U+ABBB", "U+ABBC", "U+ABBD",
      "U+ABBE", "U+ABBF", "U+13F8", "U+13F9", "U+13FA", "U+13FB", "U+13FC", "U+13FD",
      "U+1C8A", "U+10D0", "U+10D1", "U+10D2", "U+10D3", "U+10D4", "U+10D5", "U+10D6",
      "U+10D7", "U+10D8", "U+10D9", "U+10DA", "U+10DB", "U+10DC", "U+10DD", "U+10DE",
      "U+10DF", "U+10E0", "U+10E1", "U+10E2", "U+10E3", "U+10E4", "U+10E5", "U+10E6",
      "U+10E7", "U+10E8", "U+10E9", "U+10EA", "U+10EB", "U+10EC", "U+10ED", "U+10EE",
      "U+10EF", "U+10F0", "U+10F1", "U+10F2", "U+10F3", "U+10F4", "U+10F5", "U+10F6",
      "U+10F7", "U+10F8", "U+10F9", "U+10FA", "U+10FD", "U+10FE", "U+10FF", "U+1E01",
      "U+1E03", "U+1E05", "U+1E07", "U+1E09", "U+1E0B", "U+1E0D", "U+1E0F", "U+1E11",
      "U+1E13", "U+1E15", "U+1E17", "U+1E19", "U+1E1B", "U+1E1D", "U+1E1F", "U+1E21",
      "U+1E23", "U+1E25", "U+1E27", "U+1E29", "U+1E2B", "U+1E2D", "U+1E2F", "U+1E31",
      "U+1E33", "U+1E35", "U+1E37", "U+1E39", "U+1E3B", "U+1E3D", "U+1E3F", "U+1E41",
      "U+1E43", "U+1E45", "U+1E47", "U+1E49", "U+1E4B", "U+1E4D", "U+1E4F", "U+1E51",
      "U+1E53", "U+1E55", "U+1E57", "U+1E59", "U+1E5B", "U+1E5D", "U+1E5F", "U+1E61",
      "U+1E63", "U+1E65", "U+1E67", "U+1E69", "U+1E6B", "U+1E6D", "U+1E6F", "U+1E71",
      "U+1E73", "U+1E75", "U+1E77", "U+1E79", "U+1E7B", "U+1E7D", "U+1E7F", "U+1E81",
      "U+1E83", "U+1E85", "U+1E87", "U+1E89", "U+1E8B", "U+1E8D", "U+1E8F", "U+1E91",
      "U+1E93", "U+1E95", "U+00DF", "U+1EA1", "U+1EA3", "U+1EA5", "U+1EA7", "U+1EA9",
      "U+1EAB", "U+1EAD", "U+1EAF", "U+1EB1", "U+1EB3", "U+1EB5", "U+1EB7", "U+1EB9",
      "U+1EBB", "U+1EBD", "U+1EBF", "U+1EC1", "U+1EC3", "U+1EC5", "U+1EC7", "U+1EC9",
      "U+1ECB", "U+1ECD", "U+1ECF", "U+1ED1", "U+1ED3", "U+1ED5", "U+1ED7", "U+1ED9",
      "U+1EDB", "U+1EDD", "U+1EDF", "U+1EE1", "U+1EE3", "U+1EE5", "U+1EE7", "U+1EE9",
      "U+1EEB", "U+1EED", "U+1EEF", "U+1EF1", "U+1EF3", "U+1EF5", "U+1EF7", "U+1EF9",
      "U+1EFB", "U+1EFD", "U+1EFF", "U+1F00", "U+1F01", "U+1F02", "U+1F03", "U+1F04",
      "U+1F05", "U+1F06", "U+1F07", "U+1F10", "U+1F11", "U+1F12", "U+1F13", "U+1F14",
      "U+1F15", "U+1F20", "U+1F21", "U+1F22", "U+1F23", "U+1F24", "U+1F25", "U+1F26",
      "U+1F27", "U+1F30", "U+1F31", "U+1F32", "U+1F33", "U+1F34", "U+1F35", "U+1F36",
      "U+1F37", "U+1F40", "U+1F41", "U+1F42", "U+1F43", "U+1F44", "U+1F45", "U+1F51",
      "U+1F53", "U+1F55", "U+1F57", "U+1F60", "U+1F61", "U+1F62", "U+1F63", "U+1F64",
      "U+1F65", "U+1F66", "U+1F67", "U+1F80", "U+1F81", "U+1F82", "U+1F83", "U+1F84",
      "U+1F85", "U+1F86", "U+1F87", "U+1F90", "U+1F91", "U+1F92", "U+1F93", "U+1F94",
      "U+1F95", "U+1F96", "U+1F97", "U+1FA0", "U+1FA1", "U+1FA2", "U+1FA3", "U+1FA4",
      "U+1FA5", "U+1FA6", "U+1FA7", "U+1FB0", "U+1FB1", "U+1F70", "U+1F71", "U+1FB3",
      "U+1F72", "U+1F73", "U+1F74", "U+1F75", "U+1FC3", "U+1FD0", "U+1FD1", "U+1F76",
      "U+1F77", "U+1FE0", "U+1FE1", "U+1F7A", "U+1F7B", "U+1FE5", "U+1F78", "U+1F79",
      "U+1F7C", "U+1F7D", "U+1FF3", "U+03C9", "k", "U+00E5", "U+214E", "U+2170",
      "U+2171", "U+2172", "U+2173", "U+2174", "U+2175", "U+2176", "U+2177", "U+2178",
      "U+2179", "U+217A", "U+217B", "U+217C", "U+217D", "U+217E", "U+217F", "U+2184",
      "U+24D0", "U+24D1", "U+24D2", "U+24D3", "U+24D4", "U+24D5", "U+24D6", "U+24D7",
      "U+24D8", "U+24D9", "U+24DA", "U+24DB", "U+24DC", "U+24DD", "U+24DE", "U+24DF",
      "U+24E0", "U+24E1", "U+24E2", "U+24E3", "U+24E4", "U+24E5", "U+24E6", "U+24E7",
      "U+24E8", "U+24E9", "U+2C30", "U+2C31", "U+2C32", "U+2C33", "U+2C34", "U+2C35",
      "U+2C36", "U+2C37", "U+2C38", "U+2C39", "U+2C3A", "U+2C3B", "U+2C3C", "U+2C3D",
      "U+2C3E", "U+2C3F", "U+2C40", "U+2C41", "U+2C42", "U+2C43", "U+2C44", "U+2C45",
      "U+2C46", "U+2C47", "U+2C48", "U+2C49", "U+2C4A", "U+2C4B", "U+2C4C", "U+2C4D",
      "U+2C4E", "U+2C4F", "U+2C50", "U+2C51", "U+2C52", "U+2C53", "U+2C54", "U+2C55",
      "U+2C56", "U+2C57", "U+2C58", "U+2C59", "U+2C5A", "U+2C5B", "U+2C5C", "U+2C5D",
      "U+2C5E", "U+2C5F", "U+2C61", "U+026B", "U+1D7D", "U+027D", "U+2C68", "U+2C6A",
      "U+2C6C", "U+0251", "U+0271", "U+0250", "U+0252", "U+2C73", "U+2C76", "U+023F",
      "U+0240", "U+2C81", "U+2C83", "U+2C85", "U+2C87", "U+2C89", "U+2C8B", "U+2C8D",
      "U+2C8F", "U+2C91", "U+2C93", "U+2C95", "U+2C97", "U+2C99", "U+2C9B", "U+2C9D",
      "U+2C9F", "U+2CA1", "U+2CA3", "U+2CA5", "U+2CA7", "U+2CA9", "U+2CAB", "U+2CAD",
      "U+2CAF", "U+2CB1", "U+2CB3", "U+2CB5", "U+2CB7", "U+2CB9", "U+2CBB", "U+2CBD",
      "U+2CBF", "U+2CC1", "U+2CC3", "U+2CC5", "U+2CC7", "U+2CC9", "U+2CCB", "U+2CCD",
      "U+2CCF", "U+2CD1", "U+2CD3", "U+2CD5", "U+2CD7", "U+2CD9", "U+2CDB", "U+2CDD",
      "U+2CDF", "U+2CE1", "U+2CE3", "U+2CEC", "U+2CEE", "U+2CF3", "U+A641", "U+A643",
      "U+A645", "U+A647", "U+A649", "U+A64B", "U+A64D", "U+A64F", "U+A651", "U+A653",
      "U+A655", "U+A657", "U+A659", "U+A65B", "U+A65D", "U+A65F", "U+A661", "U+A663",
      "U+A665", "U+A667", "U+A669", "U+A66B", "U+A66D", "U+A681", "U+A683", "U+A685",
      "U+A687", "U+A689", "U+A68B", "U+A68D", "U+A68F", "U+A691", "U+A693", "U+A695",
      "U+A697", "U+A699", "U+A69B", "U+A723", "U+A725", "U+A727", "U+A729", "U+A72B",
      "U+A72D", "U+A72F", "U+A733", "U+A735", "U+A737", "U+A739", "U+A73B", "U+A73D",
      "U+A73F", "U+A741", "U+A743", "U+A745", "U+A747", "U+A749", "U+A74B", "U+A74D",
      "U+A74F", "U+A751", "U+A753", "U+A755", "U+A757", "U+A759", "U+A75B", "U+A75D",
      "U+A75F", "U+A761", "U+A763", "U+A765", "U+A767", "U+A769", "U+A76B", "U+A76D",
      "U+A76F", "U+A77A", "U+A77C", "U+1D79", "U+A77F", "U+A781", "U+A783", "U+A785",
      "U+A787", "U+A78C", "U+0265", "U+A791", "U+A793", "U+A797", "U+A799", "U+A79B",
      "U+A79D", "U+A79F", "U+A7A1", "U+A7A3", "U+A7A5", "U+A7A7", "U+A7A9", "U+0266",
      "U+025C", "U+0261", "U+026C", "U+026A", "U+029E", "U+0287", "U+029D", "U+AB53",
      "U+A7B5", "U+A7B7", "U+A7B9", "U+A7BB", "U+A7BD", "U+A7BF", "U+A7C1", "U+A7C3",
      "U+A794", "U+0282", "U+1D8E", "U+A7C8", "U+A7CA", "U+0264", "U+A7CD", "U+A7CF",
      "U+A7D1", "U+A7D3", "U+A7D5", "U+A7D7", "U+A7D9", "U+A7DB", "U+019B", "U+A7F6",
      "U+FF41", "U+FF42", "U+FF43", "U+FF44", "U+FF45", "U+FF46", "U+FF47", "U+FF48",
      "U+FF49", "U+FF4A", "U+FF4B", "U+FF4C", "U+FF4D", "U+FF4E", "U+FF4F", "U+FF50",
      "U+FF51", "U+FF52", "U+FF53", "U+FF54", "U+FF55", "U+FF56", "U+FF57", "U+FF58",
      "U+FF59", "U+FF5A", "U+10428", "U+10429", "U+1042A", "U+1042B", "U+1042C", "U+1042D",
      "U+1042E", "U+1042F", "U+10430", "U+10431", "U+10432", "U+10433", "U+10434", "U+10435",
      "U+10436", "U+10437", "U+10438", "U+10439", "U+1043A", "U+1043B", "U+1043C", "U+1043D",
      "U+1043E", "U+1043F", "U+10440", "U+10441", "U+10442", "U+10443", "U+10444", "U+10445",
      "U+10446", "U+10447", "U+10448", "U+10449", "U+1044A", "U+1044B", "U+1044C", "U+1044D",
      "U+1044E", "U+1044F", "U+104D8", "U+104D9", "U+104DA", "U+104DB", "U+104DC", "U+104DD",
      "U+104DE", "U+104DF", "U+104E0", "U+104E1", "U+104E2", "U+104E3", "U+104E4", "U+104E5",
      "U+104E6", "U+104E7", "U+104E8", "U+104E9", "U+104EA", "U+104EB", "U+104EC", "U+104ED",
      "U+104EE", "U+104EF", "U+104F0", "U+104F1", "U+104F2", "U+104F3", "U+104F4", "U+104F5",
      "U+104F6", "U+104F7", "U+104F8", "U+104F9", "U+104FA", "U+104FB", "U+10597", "U+10598",
      "U+10599", "U+1059A", "U+1059B", "U+1059C", "U+1059D", "U+1059E", "U+1059F", "U+105A0",
      "U+105A1", "U+105A3", "U+105A4", "U+105A5", "U+105A6", "U+105A7", "U+105A8", "U+105A9",
      "U+105AA", "U+105AB", "U+105AC", "U+105AD", "U+105AE", "U+105AF", "U+105B0", "U+105B1",
      "U+105B3", "U+105B4", "U+105B5", "U+105B6", "U+105B7", "U+105B8", "U+105B9", "U+105BB",
      "U+105BC", "U+10CC0", "U+10CC1", "U+10CC2", "U+10CC3", "U+10CC4", "U+10CC5", "U+10CC6",
      "U+10CC7", "U+10CC8", "U+10CC9", "U+10CCA", "U+10CCB", "U+10CCC", "U+10CCD", "U+10CCE",
      "U+10CCF", "U+10CD0", "U+10CD1", "U+10CD2", "U+10CD3", "U+10CD4", "U+10CD5", "U+10CD6",
      "U+10CD7", "U+10CD8", "U+10CD9", "U+10CDA", "U+10CDB", "U+10CDC", "U+10CDD", "U+10CDE",
      "U+10CDF", "U+10CE0", "U+10CE1", "U+10CE2", "U+10CE3", "U+10CE4", "U+10CE5", "U+10CE6",
      "U+10CE7", "U+10CE8", "U+10CE9", "U+10CEA", "U+10CEB", "U+10CEC", "U+10CED", "U+10CEE",
      "U+10CEF", "U+10CF0", "U+10CF1", "U+10CF2", "U+10D70", "U+10D71", "U+10D72", "U+10D73",
      "U+10D74", "U+10D75", "U+10D76", "U+10D77", "U+10D78", "U+10D79", "U+10D7A", "U+10D7B",
      "U+10D7C", "U+10D7D", "U+10D7E", "U+10D7F", "U+10D80", "U+10D81", "U+10D82", "U+10D83",
      "U+10D84", "U+10D85", "U+118C0", "U+118C1", "U+118C2", "U+118C3", "U+118C4", "U+118C5",
      "U+118C6", "U+118C7", "U+118C8", "U+118C9", "U+118CA", "U+118CB", "U+118CC", "U+118CD",
      "U+118CE", "U+118CF", "U+118D0", "U+118D1", "U+118D2", "U+118D3", "U+118D4", "U+118D5",
      "U+118D6", "U+118D7", "U+118D8", "U+118D9", "U+118DA", "U+118DB", "U+118DC", "U+118DD",
      "U+118DE", "U+118DF", "U+16E60", "U+16E61", "U+16E62", "U+16E63", "U+16E64", "U+16E65",
      "U+16E66", "U+16E67", "U+16E68", "U+16E69", "U+16E6A", "U+16E6B", "U+16E6C", "U+16E6D",
      "U+16E6E", "U+16E6F", "U+16E70", "U+16E71", "U+16E72", "U+16E73", "U+16E74", "U+16E75",
      "U+16E76", "U+16E77", "U+16E78", "U+16E79", "U+16E7A", "U+16E7B", "U+16E7C", "U+16E7D",
      "U+16E7E", "U+16E7F", "U+16EBB", "U+16EBC", "U+16EBD", "U+16EBE", "U+16EBF", "U+16EC0",
      "U+16EC1", "U+16EC2", "U+16EC3", "U+16EC4", "U+16EC5", "U+16EC6", "U+16EC7", "U+16EC8",
      "U+16EC9", "U+16ECA", "U+16ECB", "U+16ECC", "U+16ECD", "U+16ECE", "U+16ECF", "U+16ED0",
      "U+16ED1", "U+16ED2", "U+16ED3", "U+1E922", "U+1E923", "U+1E924", "U+1E925", "U+1E926",
      "U+1E927", "U+1E928", "U+1E929", "U+1E92A", "U+1E92B", "U+1E92C", "U+1E92D", "U+1E92E",
      "U+1E92F", "U+1E930", "U+1E931", "U+1E932", "U+1E933", "U+1E934", "U+1E935", "U+1E936",
      "U+1E937", "U+1E938", "U+1E939", "U+1E93A", "U+1E93B", "U+1E93C", "U+1E93D", "U+1E93E",
      "U+1E93F", "U+1E940", "U+1E941", "U+1E942", "U+1E943"
    >>

\* The characters whose lowercase (char::to_lowercase) has two characters.
ToLowerFrom2 ==
    <<
      "U+0130"
    >>

\* Of each, in the same order, the first character of the lowercase (char::to_lowercase).
ToLowerTo2a ==
    <<
      "i"
    >>

\* Of each, in the same order, the second character of the lowercase (char::to_lowercase).
ToLowerTo2b ==
    <<
      "U+0307"
    >>

\* The characters whose uppercase (char::to_uppercase) has one character.
ToUpperFrom ==
    <<
      "U+00B5", "U+00E0", "U+00E1", "U+00E2", "U+00E3", "U+00E4", "U+00E5", "U+00E6",
      "U+00E7", "U+00E8", "U+00E9", "U+00EA", "U+00EB", "U+00EC", "U+00ED", "U+00EE",
      "U+00EF", "U+00F0", "U+00F1", "U+00F2", "U+00F3", "U+00F4", "U+00F5", "U+00F6",
      "U+00F8", "U+00F9", "U+00FA", "U+00FB", "U+00FC", "U+00FD", "U+00FE", "U+00FF",
      "U+0101", "U+0103", "U+0105", "U+0107", "U+0109", "U+010B", "U+010D", "U+010F",
      "U+0111", "U+0113", "U+0115", "U+0117", "U+0119", "U+011B", "U+011D", "U+011F",
      "U+0121", "U+0123", "U+0125", "U+0127", "U+0129", "U+012B", "U+012D", "U+012F",
      "U+0131", "U+0133", "U+0135", "U+0137", "U+013A", "U+013C", "U+013E", "U+0140",
      "U+0142", "U+0144", "U+0146", "U+0148", "U+014B", "U+014D", "U+014F", "U+0151",
      "U+0153", "U+0155", "U+0157", "U+0159", "U+015B", "U+015D", "U+015F", "U+0161",
      "U+0163", "U+0165", "U+0167", "U+0169", "U+016B", "U+016D", "U+016F", "U+0171",
      "U+0173", "U+0175", "U+0177", "U+017A", "U+017C", "U+017E", "U+017F", "U+0180",
      "U+0183", "U+0185", "U+0188", "U+018C", "U+0192", "U+0195", "U+0199", "U+019A",
      "U+019B", "U+019E", "U+01A1", "U+01A3", "U+01A5", "U+01A8", "U+01AD", "U+01B0",
      "U+01B4", "U+01B6", "U+01B9", "U+01BD", "U+01BF", "U+01C5", "U+01C6", "U+01C8",
      "U+01C9", "U+01CB", "U+01CC", "U+01CE", "U+01D0", "U+01D2", "U+01D4", "U+01D6",
      "U+01D8", "U+01DA", "U+01DC", "U+01DD", "U+01DF", "U+01E1", "U+01E3", "U+01E5",
      "U+01E7", "U+01E9", "U+01EB", "U+01ED", "U+01EF", "U+01F2", "U+01F3", "U+01F5",
      "U+01F9", "U+01FB", "U+01FD", "U+01FF", "U+0201", "U+0203", "U+0205", "U+0207",
      "U+0209", "U+020B", "U+020D", "U+020F", "U+0211", "U+0213", "U+0215", "U+0217",
      "U+0219", "U+021B", "U+021D", "U+021F", "U+0223", "U+0225", "U+0227", "U+0229",
      "U+022B", "U+022D", "U+022F", "U+0231", "U+0233", "U+023C", "U+023F", "U+0240",
      "U+0242", "U+0247", "U+0249", "U+024B", "U+024D", "U+024F", "U+0250", "U+0251",
      "U+0252", "U+0253", "U+0254", "U+0256", "U+0257", "U+0259", "U+025B", "U+025C",
      "U+0260", "U+0261", "U+0263", "U+0264", "U+0265", "U+0266", "U+0268", "U+0269",
      "U+026A", "U+026B", "U+026C", "U+026F", "U+0271", "U+0272", "U+0275", "U+027D",
      "U+0280", "U+0282", "U+0283", "U+0287", "U+0288", "U+0289", "U+028A", "U+028B",
      "U+028C", "U+0292", "U+029D", "U+029E", "U+0345", "U+0371", "U+0373", "U+0377",
      "U+037B", "U+037C", "U+037D", "U+03AC", "U+03AD", "U+03AE", "U+03AF", "U+03B1",
      "U+03B2", "U+03B3", "U+03B4", "U+03B5", "U+03B6", "U+03B7", "U+03B8", "U+03B9",
      "U+03BA", "U+03BB", "U+03BC", "U+03BD", "U+03BE", "U+03BF", "U+03C0", "U+03C1",
      "U+03C2", "U+03C3", "U+03C4", "U+03C5", "U+03C6", "U+03C7", "U+03C8", "U+03C9",
      "U+03CA", "U+03CB", "U+03CC", "U+03CD", "U+03CE", "U+03D0", "U+03D1", "U+03D5",
      "U+03D6", "U+03D7", "U+03D9", "U+03DB", "U+03DD", "U+03DF", "U+03E1", "U+03E3",
      "U+03E5", "U+03E7", "U+03E9", "U+03EB", "U+03ED", "U+03EF", "U+03F0", "U+03F1",
      "U+03F2", "U+03F3", "U+03F5", "U+03F8", "U+03FB", "U+0430", "U+0431", "U+0432",
      "U+0433", "U+0434", "U+0435", "U+0436", "U+0437", "U+0438", "U+0439", "U+043A",
      "U+043B", "U+043C", "U+043D", "U+043E", "U+043F", "U+0440", "U+0441", "U+0442",
      "U+0443", "U+0444", "U+0445", "U+0446", "U+0447", "U+0448", "U+0449", "U+044A",
      "U+044B", "U+044C", "U+044D", "U+044E", "U+044F", "U+0450", "U+0451", "U+0452",
      "U+0453", "U+0454", "U+0455", "U+0456", "U+0457", "U+0458", "U+0459", "U+045A",
      "U+045B", "U+045C", "U+045D", "U+045E", "U+045F", "U+0461", "U+0463", "U+0465",
      "U+0467", "U+0469", "U+046B", "U+046D", "U+046F", "U+0471", "U+0473", "U+0475",
      "U+0477", "U+0479", "U+047B", "U+047D", "U+047F", "U+0481", "U+048B", "U+048D",
      "U+048F", "U+0491", "U+0493", "U+0495", "U+0497", "U+0499", "U+049B", "U+049D",
      "U+049F", "U+04A1", "U+04A3", "U+04A5", "U+04A7", "U+04A9", "U+04AB", "U+04AD",
      "U+04AF", "U+04B1", "U+04B3", "U+04B5", "U+04B7", "U+04B9", "U+04BB", "U+04BD",
      "U+04BF", "U+04C2", "U+04C4", "U+04C6", "U+04C8", "U+04CA", "U+04CC", "U+04CE",
      "U+04CF", "U+04D1", "U+04D3", "U+04D5", "U+04D7", "U+04D9", "U+04DB", "U+04DD",
      "U+04DF", "U+04E1", "U+04E3", "U+04E5", "U+04E7", "U+04E9", "U+04EB", "U+04ED",
      "U+04EF", "U+04F1", "U+04F3", "U+04F5", "U+04F7", "U+04F9", "U+04FB", "U+04FD",
      "U+04FF", "U+0501", "U+0503", "U+0505", "U+0507", "U+0509", "U+050B", "U+050D",
      "U+050F", "U+0511", "U+0513", "U+0515", "U+0517", "U+0519", "U+051B", "U+051D",
      "U+051F", "U+0521", "U+0523", "U+0525", "U+0527", "U+0529", "U+052B", "U+052D",
      "U+052F", "U+0561", "U+0562", "U+0563", "U+0564", "U+0565", "U+0566", "U+0567",
      "U+0568", "U+0569", "U+056A", "U+056B", "U+056C", "U+056D", "U+056E", "U+056F",
      "U+0570", "U+0571", "U+0572", "U+0573", "U+0574", "U+0575", "U+0576", "U+0577",
      "U+0578", "U+0579", "U+057A", "U+057B", "U+057C", "U+057D", "U+057E", "U+057F",
      "U+0580", "U+0581", "U+0582", "U+0583", "U+0584", "U+0585", "U+0586", "U+10D0",
      "U+10D1", "U+10D2", "U+10D3", "U+10D4", "U+10D5", "U+10D6", "U+10D7", "U+10D8",
      "U+10D9", "U+10DA", "U+10DB", "U+10DC", "U+10DD", "U+10DE", "U+10DF", "U+10E0",
      "U+10E1", "U+10E2", "U+10E3", "U+10E4", "U+10E5", "U+10E6", "U+10E7", "U+10E8",
      "U+10E9", "U+10EA", "U+10EB", "U+10EC", "U+10ED", "U+10EE", "U+10EF", "U+10F0",
      "U+10F1", "U+10F2", "U+10F3", "U+10F4", "U+10F5", "U+10F6", "U+10F7", "U+10F8",
      "U+10F9", "U+10FA", "U+10FD", "U+10FE", "U+10FF", "U+13F8", "U+13F9", "U+13FA",
      "U+13FB", "U+13FC", "U+13FD", "U+1C80", "U+1C81", "U+1C82", "U+1C83", "U+1C84",
      "U+1C85", "U+1C86", "U+1C87", "U+1C88", "U+1C8A", "U+1D79", "U+1D7D", "U+1D8E",
      "U+1E01", "U+1E03", "U+1E05", "U+1E07", "U+1E09", "U+1E0B", "U+1E0D", "U+1E0F",
      "U+1E11", "U+1E13", "U+1E15", "U+1E17", "U+1E19", "U+1E1B", "U+1E1D", "U+1E1F",
      "U+1E21", "U+1E23", "U+1E25", "U+1E27", "U+1E29", "U+1E2B", "U+1E2D", "U+1E2F",
      "U+1E31", "U+1E33", "U+1E35", "U+1E37", "U+1E39", "U+1E3B", "U+1E3D", "U+1E3F",
      "U+1E41", "U+1E43", "U+1E45", "U+1E47", "U+1E49", "U+1E4B", "U+1E4D", "U+1E4F",
      "U+1E51", "U+1E53", "U+1E55", "U+1E57", "U+1E59", "U+1E5B", "U+1E5D", "U+1E5F",
      "U+1E61", "U+1E63", "U+1E65", "U+1E67", "U+1E69", "U+1E6B", "U+1E6D", "U+1E6F",
      "U+1E71", "U+1E73", "U+1E75", "U+1E77", "U+1E79", "U+1E7B", "U+1E7D", "U+1E7F",
      "U+1E81", "U+1E83", "U+1E85", "U+1E87", "U+1E89", "U+1E8B", "U+1E8D", "U+1E8F",
      "U+1E91", "U+1E93", "U+1E95", "U+1E9B", "U+1EA1", "U+1EA3", "U+1EA5", "U+1EA7",
      "U+1EA9", "U+1EAB", "U+1EAD", "U+1EAF", "U+1EB1", "U+1EB3", "U+1EB5", "U+1EB7",
      "U+1EB9", "U+1EBB", "U+1EBD", "U+1EBF", "U+1EC1", "U+1EC3", "U+1EC5", "U+1EC7",
      "U+1EC9", "U+1ECB", "U+1ECD", "U+1ECF", "U+1ED1", "U+1ED3", "U+1ED5", "U+1ED7",
      "U+1ED9", "U+1EDB", "U+1EDD", "U+1EDF", "U+1EE1", "U+1EE3", "U+1EE5", "U+1EE7",
      "U+1EE9", "U+1EEB", "U+1EED", "U+1EEF", "U+1EF1", "U+1EF3", "U+1EF5", "U+1EF7",
      "U+1EF9", "U+1EFB", "U+1EFD", "U+1EFF", "U+1F00", "U+1F01", "U+1F02", "U+1F03",
      "U+1F04", "U+1F05", "U+1F06", "U+1F07", "U+1F10", "U+1F11", "U+1F12", "U+1F13",
      "U+1F14", "U+1F15", "U+1F20", "U+1F21", "U+1F22", "U+1F23", "U+1F24", "U+1F25",
      "U+1F26", "U+1F27", "U+1F30", "U+1F31", "U+1F32", "U+1F33", "U+1F34", "U+1F35",
      "U+1F36", "U+1F37", "U+1F40", "U+1F41", "U+1F42", "U+1F43", "U+1F44", "U+1F45",
      "U+1F51", "U+1F53", "U+1F55", "U+1F57", "U+1F60", "U+1F61", "U+1F62", "U+1F63",
      "U+1F64", "U+1F65", "U+1F66", "U+1F67", "U+1F70", "U+1F71", "U+1F72", "U+1F73",
      "U+1F74", "U+1F75", "U+1F76", "U+1F77", "U+1F78", "U+1F79", "U+1F7A", "U+1F7B",
      "U+1F7C", "U+1F7D", "U+1FB0", "U+1FB1", "U+1FBE", "U+1FD0", "U+1FD1", "U+1FE0",
      "U+1FE1", "U+1FE5", "U+214E", "U+2170", "U+2171", "U+2172", "U+2173", "U+2174",
      "U+2175", "U+2176", "U+2177", "U+2178", "U+2179", "U+217A", "U+217B", "U+217C",
      "U+217D", "U+217E", "U+217F", "U+2184", "U+24D0", "U+24D1", "U+24D2", "U+24D3",
      "U+24D4", "U+24D5", "U+24D6", "U+24D7", "U+24D8", "U+24D9", "U+24DA", "U+24DB",
      "U+24DC", "U+24DD", "U+24DE", "U+24DF", "U+24E0", "U+24E1", "U+24E2", "U+24E3",
      "U+24E4", "U+24E5", "U+24E6", "U+24E7", "U+24E8", "U+24E9", "U+2C30", "U+2C31",
      "U+2C32", "U+2C33", "U+2C34", "U+2C35", "U+2C36", "U+2C37", "U+2C38", "U+2C39",
      "U+2C3A", "U+2C3B", "U+2C3C", "U+2C3D", "U+2C3E", "U+2C3F", "U+2C40", "U+2C41",
      "U+2C42", "U+2C43", "U+2C44", "U+2C45", "U+2C46", "U+2C47", "U+2C48", "U+2C49",
      "U+2C4A", "U+2C4B", "U+2C4C", "U+2C4D", "U+2C4E", "U+2C4F", "U+2C50", "U+2C51",
      "U+2C52", "U+2C53", "U+2C54", "U+2C55", "U+2C56", "U+2C57", "U+2C58", "U+2C59",
      "U+2C5A", "U+2C5B", "U+2C5C", "U+2C5D", "U+2C5E", "U+2C5F", "U+2C61", "U+2C65",
      "U+2C66", "U+2C68", "U+2C6A", "U+2C6C", "U+2C73", "U+2C76", "U+2C81", "U+2C83",
      "U+2C85", "U+2C87", "U+2C89", "U+2C8B", "U+2C8D", "U+2C8F", "U+2C91", "U+2C93",
      "U+2C95", "U+2C97", "U+2C99", "U+2C9B", "U+2C9D", "U+2C9F", "U+2CA1", "U+2CA3",
      "U+2CA5", "U+2CA7", "U+2CA9", "U+2CAB", "U+2CAD", "U+2CAF", "U+2CB1", "U+2CB3",
      "U+2CB5", "U+2CB7", "U+2CB9", "U+2CBB", "U+2CBD", "U+2CBF", "U+2CC1", "U+2CC3",
      "U+2CC5", "U+2CC7", "U+2CC9", "U+2CCB", "U+2CCD", "U+2CCF", "U+2CD1", "U+2CD3",
      "U+2CD5", "U+2CD7", "U+2CD9", "U+2CDB", "U+2CDD", "U+2CDF", "U+2CE1", "U+2CE3",
      "U+2CEC", "U+2CEE", "U+2CF3", "U+2D00", "U+2D01", "U+2D02", "U+2D03", "U+2D04",
      "U+2D05", "U+2D06", "U+2D07", "U+2D08", "U+2D09", "U+2D0A", "U+2D0B", "U+2D0C",
      "U+2D0D", "U+2D0E", "U+2D0F", "U+2D10", "U+2D11", "U+2D12", "U+2D13", "U+2D14",
      "U+2D15", "U+2D16", "U+2D17", "U+2D18", "U+2D19", "U+2D1A", "U+2D1B", "U+2D1C",
      "U+2D1D", "U+2D1E", "U+2D1F", "U+2D20", "U+2D21", "U+2D22", "U+2D23", "U+2D24",
      "U+2D25", "U+2D27", "U+2D2D", "U+A641", "U+A643", "U+A645", "U+A647", "U+A649",
      "U+A64B", "U+A64D", "U+A64F", "U+A651", "U+A653", "U+A655", "U+A657", "U+A659",
      "U+A65B", "U+A65D", "U+A65F", "U+A661", "U+A663", "U+A665", "U+A667", "U+A669",
      "U+A66B", "U+A66D", "U+A681", "U+A683", "U+A685", "U+A687", "U+A689", "U+A68B",
      "U+A68D", "U+A68F", "U+A691", "U+A693", "U+A695", "U+A697", "U+A699", "U+A69B",
      "U+A723", "U+A725", "U+A727", "U+A729", "U+A72B", "U+A72D", "U+A72F", "U+A733",
      "U+A735", "U+A737", "U+A739", "U+A73B", "U+A73D", "U+A73F", "U+A741", "U+A743",
      "U+A745", "U+A747", "U+A749", "U+A74B", "U+A74D", "U+A74F", "U+A751", "U+A753",
      "U+A755", "U+A757", "U+A759", "U+A75B", "U+A75D", "U+A75F", "U+A761", "U+A763",
      "U+A765", "U+A767", "U+A769", "U+A76B", "U+A76D", "U+A76F", "U+A77A", "U+A77C",
      "U+A77F", "U+A781", "U+A783", "U+A785", "U+A787", "U+A78C", "U+A791", "U+A793",
      "U+A794", "U+A797", "U+A799", "U+A79B", "U+A79D", "U+A79F", "U+A7A1", "U+A7A3",
      "U+A7A5", "U+A7A7", "U+A7A9", "U+A7B5", "U+A7B7", "U+A7B9", "U+A7BB", "U+A7BD",
      "U+A7BF", "U+A7C1", "U+A7C3", "U+A7C8", "U+A7CA", "U+A7CD", "U+A7CF", "U+A7D1",
      "U+A7D3", "U+A7D5", "U+A7D7", "U+A7D9", "U+A7DB", "U+A7F6", "U+AB53", "U+AB70",
      "U+AB71", "U+AB72", "U+AB73", "U+AB74", "U+AB75", "U+AB76", "U+AB77", "U+AB78",
      "U+AB79", "U+AB7A", "U+AB7B", "U+AB7C", "U+AB7D", "U+AB7E", "U+AB7F", "U+AB80",
      "U+AB81", "U+AB82", "U+AB83", "U+AB84", "U+AB85", "U+AB86", "U+AB87", "U+AB88",
      "U+AB89", "U+AB8A", "U+AB8B", "U+AB8C", "U+AB8D", "U+AB8E", "U+AB8F", "U+AB90",
      "U+AB91", "U+AB92", "U+AB93", "U+AB94", "U+AB95", "U+AB96", "U+AB97", "U+AB98",
      "U+AB99", "U+AB9A", "U+AB9B", "U+AB9C", "U+AB9D", "U+AB9E", "U+AB9F", "U+ABA0",
      "U+ABA1", "U+ABA2", "U+ABA3", "U+ABA4", "U+ABA5", "U+ABA6", "U+ABA7", "U+ABA8",
      "U+ABA9", "U+ABAA", "U+ABAB", "U+ABAC", "U+ABAD", "U+ABAE", "U+ABAF", "U+ABB0",
      "U+ABB1", "U+ABB2", "U+ABB3", "U+ABB4", "U+ABB5", "U+ABB6", "U+ABB7", "U+ABB8",
      "U+ABB9", "U+ABBA", "U+ABBB", "U+ABBC", "U+ABBD", "U+ABBE", "U+ABBF", "U+FF41",
      "U+FF42", "U+FF43", "U+FF44", "U+FF45", "U+FF46", "U+FF47", "U+FF48", "U+FF49",
      "U+FF4A", "U+FF4B", "U+FF4C", "U+FF4D", "U+FF4E", "U+FF4F", "U+FF50", "U+FF51",
      "U+FF52", "U+FF53", "U+FF54", "U+FF55", "U+FF56", "U+FF57", "U+FF58", "U+FF59",
      "U+FF5A", "U+10428", "U+10429", "U+1042A", "U+1042B", "U+1042C", "U+1042D", "U+1042E",
      "U+1042F", "U+10430", "U+10431", "U+10432", "U+10433", "U+10434", "U+10435", "U+10436",
      "U+10437", "U+10438", "U+10439", "U+1043A", "U+1043B", "U+1043C", "U+1043D", "U+1043E",
      "U+1043F", "U+10440", "U+10441", "U+10442", "U+10443", "U+10444", "U+10445", "U+10446",
      "U+10447", "U+10448", "U+10449", "U+1044A", "U+1044B", "U+1044C", "U+1044D", "U+1044E",
      "U+1044F", "U+104D8", "U+104D9", "U+104DA", "U+104DB", "U+104DC", "U+104DD", "U+104DE",
      "U+104DF", "U+104E0", "U+104E1", "U+104E2", "U+104E3", "U+104E4", "U+104E5", "U+104E6",
      "U+104E7", "U+104E8", "U+104E9", "U+104EA", "U+104EB", "U+104EC", "U+104ED", "U+104EE",
      "U+104EF", "U+104F0", "U+104F1", "U+104F2", "U+104F3", "U+104F4", "U+104F5", "U+104F6",
      "U+104F7", "U+104F8", "U+104F9", "U+104FA", "U+104FB", "U+10597", "U+10598", "U+10599",
      "U+1059A", "U+1059B", "U+1059C", "U+1059D", "U+1059E", "U+1059F", "U+105A0", "U+105A1",
      "U+105A3", "U+105A4", "U+105A5", "U+105A6", "U+105A7", "U+105A8", "U+105A9", "U+105AA",
      "U+105AB", "U+105AC", "U+105AD", "U+105AE", "U+105AF", "U+105B0", "U+105B1", "U+105B3",
      "U+105B4", "U+105B5", "U+105B6", "U+105B7", "U+105B8", "U+105B9", "U+105BB", "U+105BC",
      "U+10CC0", "U+10CC1", "U+10CC2", "U+10CC3", "U+10CC4", "U+10CC5", "U+10CC6", "U+10CC7",
      "U+10CC8", "U+10CC9", "U+10CCA", "U+10CCB", "U+10CCC", "U+10CCD", "U+10CCE", "U+10CCF",
      "U+10CD0", "U+10CD1", "U+10CD2", "U+10CD3", "U+10CD4", "U+10CD5", "U+10CD6", "U+10CD7",
      "U+10CD8", "U+10CD9", "U+10CDA", "U+10CDB", "U+10CDC", "U+10CDD", "U+10CDE", "U+10CDF",
      "U+10CE0", "U+10CE1", "U+10CE2", "U+10CE3", "U+10CE4", "U+10CE5", "U+10CE6", "U+10CE7",
      "U+10CE8", "U+10CE9", "U+10CEA", "U+10CEB", "U+10CEC", "U+10CED", "U+10CEE", "U+10CEF",
      "U+10CF0", "U+10CF1", "U+10CF2", "U+10D70", "U+10D71", "U+10D72", "U+10D73", "U+10D74",
      "U+10D75", "U+10D76", "U+10D77", "U+10D78", "U+10D79", "U+10D7A", "U+10D7B", "U+10D7C",
      "U+10D7D", "U+10D7E", "U+10D7F", "U+10D80", "U+10D81", "U+10D82", "U+10D83", "U+10D84",
      "U+10D85", "U+118C0", "U+118C1", "U+118C2", "U+118C3", "U+118C4", "U+118C5", "U+118C6",
      "U+118C7", "U+118C8", "U+118C9", "U+118CA", "U+118CB", "U+118CC", "U+118CD", "U+118CE",
      "U+118CF", "U+118D0", "U+118D1", "U+118D2", "U+118D3", "U+118D4", "U+118D5", "U+118D6",
      "U+118D7", "U+118D8", "U+118D9", "U+118DA", "U+118DB", "U+118DC", "U+118DD", "U+118DE",
      "U+118DF", "U+16E60", "U+16E61", "U+16E62", "U+16E63", "U+16E64", "U+16E65", "U+16E66",
      "U+16E67", "U+16E68", "U+16E69", "U+16E6A", "U+16E6B", "U+16E6C", "U+16E6D", "U+16E6E",
      "U+16E6F", "U+16E70", "U+16E71", "U+16E72", "U+16E73", "U+16E74", "U+16E75", "U+16E76",
      "U+16E77", "U+16E78", "U+16E79", "U+16E7A", "U+16E7B", "U+16E7C", "U+16E7D", "U+16E7E",
      "U+16E7F", "U+16EBB", "U+16EBC", "U+16EBD", "U+16EBE", "U+16EBF", "U+16EC0", "U+16EC1",
      "U+16EC2", "U+16EC3", "U+16EC4", "U+16EC5", "U+16EC6", "U+16EC7", "U+16EC8", "U+16EC9",
      "U+16ECA", "U+16ECB", "U+16ECC", "U+16ECD", "U+16ECE", "U+16ECF", "U+16ED0", "U+16ED1",
      "U+16ED2", "U+16ED3", "U+1E922", "U+1E923", "U+1E924", "U+1E925", "U+1E926", "U+1E927",
      "U+1E928", "U+1E929", "U+1E92A", "U+1E92B", "U+1E92C", "U+1E92D", "U+1E92E", "U+1E92F",
      "U+1E930", "U+1E931", "U+1E932", "U+1E933", "U+1E934", "U+1E935", "U+1E936", "U+1E937",
      "U+1E938", "U+1E939", "U+1E93A", "U+1E93B", "U+1E93C", "U+1E93D", "U+1E93E", "U+1E93F",
      "U+1E940", "U+1E941", "U+1E942", "U+1E943"
    >>

\* Of each, in the same order, the uppercase (char::to_uppercase).
ToUpperTo ==
    <<
      "U+039C", "U+00C0", "U+00C1", "U+00C2", "U+00C3", "U+00C4", "U+00C5", "U+00C6",
      "U+00C7", "U+00C8", "U+00C9", "U+00CA", "U+00CB", "U+00CC", "U+00CD", "U+00CE",
      "U+00CF", "U+00D0", "U+00D1", "U+00D2", "U+00D3", "U+00D4", "U+00D5", "U+00D6",
      "U+00D8", "U+00D9", "U+00DA", "U+00DB", "U+00DC", "U+00DD", "U+00DE", "U+0178",
      "U+0100", "U+0102", "U+0104", "U+0106", "U+0108", "U+010A", "U+010C", "U+010E",
      "U+0110", "U+0112", "U+0114", "U+0116", "U+0118", "U+011A", "U+011C", "U+011E",
      "U+0120", "U+0122", "U+0124", "U+0126", "U+0128", "U+012A", "U+012C", "U+012E",
      "I", "U+0132", "U+0134", "U+0136", "U+0139", "U+013B", "U+013D", "U+013F",
      "U+0141", "U+0143", "U+0145", "U+0147", "U+014A", "U+014C", "U+014E", "U+0150",
      "U+0152", "U+0154", "U+0156", "U+0158", "U+015A", "U+015C", "U+015E", "U+0160",
      "U+0162", "U+0164", "U+0166", "U+0168", "U+016A", "U+016C", "U+016E", "U+0170",
      "U+0172", "U+0174", "U+0176", "U+0179", "U+017B", "U+017D", "S", "U+0243",
      "U+0182", "U+0184", "U+0187", "U+018B", "U+0191", "U+01F6", "U+0198", "U+023D",
      "U+A7DC", "U+0220", "U+01A0", "U+01A2", "U+01A4", "U+01A7", "U+01AC", "U+01AF",
      "U+01B3", "U+01B5", "U+01B8", "U+01BC", "U+01F7", "U+01C4", "U+01C4", "U+01C7",
      "U+01C7", "U+01CA", "U+01CA", "U+01CD", "U+01CF", "U+01D1", "U+01D3", "U+01D5",
      "U+01D7", "U+01D9", "U+01DB", "U+018E", "U+01DE", "U+01E0", "U+01E2", "U+01E4",
      "U+01E6", "U+01E8", "U+01EA", "U+01EC", "U+01EE", "U+01F1", "U+01F1", "U+01F4",
      "U+01F8", "U+01FA", "U+01FC", "U+01FE", "U+0200", "U+0202", "U+0204", "U+0206",
      "U+0208", "U+020A", "U+020C", "U+020E", "U+0210", "U+0212", "U+0214", "U+0216",
      "U+0218", "U+021A", "U+021C", "U+021E", "U+0222", "U+0224", "U+0226", "U+0228",
      "U+022A", "U+022C", "U+022E", "U+0230", "U+0232", "U+023B", "U+2C7E", "U+2C7F",
      "U+0241", "U+0246", "U+0248", "U+024A", "U+024C", "U+024E", "U+2C6F", "U+2C6D",
      "U+2C70", "U+0181", "U+0186", "U+0189", "U+018A", "U+018F", "U+0190", "U+A7AB",
      "U+0193", "U+A7AC", "U+0194", "U+A7CB", "U+A78D", "U+A7AA", "U+0197", "U+0196",
      "U+A7AE", "U+2C62", "U+A7AD", "U+019C", "U+2C6E", "U+019D", "U+019F", "U+2C64",
      "U+01A6", "U+A7C5", "U+01A9", "U+A7B1", "U+01AE", "U+0244", "U+01B1", "U+01B2",
      "U+0245", "U+01B7", "U+A7B2", "U+A7B0", "U+0399", "U+0370", "U+0372", "U+0376",
      "U+03FD", "U+03FE", "U+03FF", "U+0386", "U+0388", "U+0389", "U+038A", "U+0391",
      "U+0392", "U+0393", "U+0394", "U+0395", "U+0396", "U+0397", "U+0398", "U+0399",
      "U+039A", "U+039B", "U+039C", "U+039D", "U+039E", "U+039F", "U+03A0", "U+03A1",
      "U+03A3", "U+03A3", "U+03A4", "U+03A5", "U+03A6", "U+03A7", "U+03A8", "U+03A9",
      "U+03AA", "U+03AB", "U+038C", "U+038E", "U+038F", "U+0392", "U+0398", "U+03A6",
      "U+03A0", "U+03CF", "U+03D8", "U+03DA", "U+03DC", "U+03DE", "U+03E0", "U+03E2",
      "U+03E4", "U+03E6", "U+03E8", "U+03EA", "U+03EC", "U+03EE", "U+039A", "U+03A1",
      "U+03F9", "U+037F", "U+0395", "U+03F7", "U+03FA", "U+0410", "U+0411", "U+0412",
      "U+0413", "U+0414", "U+0415", "U+0416", "U+0417", "U+0418", "U+0419", "U+041A",
      "U+041B", "U+041C", "U+041D", "U+041E", "U+041F", "U+0420", "U+0421", "U+0422",
      "U+0423", "U+0424", "U+0425", "U+0426", "U+0427", "U+0428", "U+0429", "U+042A",
      "U+042B", "U+042C", "U+042D", "U+042E", "U+042F", "U+0400", "U+0401", "U+0402",
      "U+0403", "U+0404", "U+0405", "U+0406", "U+0407", "U+0408", "U+0409", "U+040A",
      "U+040B", "U+040C", "U+040D", "U+040E", "U+040F", "U+0460", "U+0462", "U+0464",
      "U+0466", "U+0468", "U+046A", "U+046C", "U+046E", "U+0470", "U+0472", "U+0474",
      "U+0476", "U+0478", "U+047A", "U+047C", "U+047E", "U+0480", "U+048A", "U+048C",
      "U+048E", "U+0490", "U+0492", "U+0494", "U+0496", "U+0498", "U+049A", "U+049C",
      "U+049E", "U+04A0", "U+04A2", "U+04A4", "U+04A6", "U+04A8", "U+04AA", "U+04AC",
      "U+04AE", "U+04B0", "U+04B2", "U+04B4", "U+04B6", "U+04B8", "U+04BA", "U+04BC",
      "U+04BE", "U+04C1", "U+04C3", "U+04C5", "U+04C7", "U+04C9", "U+04CB", "U+04CD",
      "U+04C0", "U+04D0", "U+04D2", "U+04D4", "U+04D6", "U+04D8", "U+04DA", "U+04DC",
      "U+04DE", "U+04E0", "U+04E2", "U+04E4", "U+04E6", "U+04E8", "U+04EA", "U+04EC",
      "U+04EE", "U+04F0", "U+04F2", "U+04F4", "U+04F6", "U+04F8", "U+04FA", "U+04FC",
      "U+04FE", "U+0500", "U+0502", "U+0504", "U+0506", "U+0508", "U+050A", "U+050C",
      "U+050E", "U+0510", "U+0512", "U+0514", "U+0516", "U+0518", "U+051A", "U+051C",
      "U+051E", "U+0520", "U+0522", "U+0524", "U+0526", "U+0528", "U+052A", "U+052C",
      "U+052E", "U+0531", "U+0532", "U+0533", "U+0534", "U+0535", "U+0536", "U+0537",
      "U+0538", "U+0539", "U+053A", "U+053B", "U+053C", "U+053D", "U+053E", "U+053F",
      "U+0540", "U+0541", "U+0542", "U+0543", "U+0544", "U+0545", "U+0546", "U+0547",
      "U+0548", "U+0549", "U+054A", "U+054B", "U+054C", "U+054D", "U+054E", "U+054F",
      "U+0550", "U+0551", "U+0552", "U+0553", "U+0554", "U+0555", "U+0556", "U+1C90",
      "U+1C91", "U+1C92", "U+1C93", "U+1C94", "U+1C95", "U+1C96", "U+1C97", "U+1C98",
      "U+1C99", "U+1C9A", "U+1C9B", "U+1C9C", "U+1C9D", "U+1C9E", "U+1C9F", "U+1CA0",
      "U+1CA1", "U+1CA2", "U+1CA3", "U+1CA4", "U+1CA5", "U+1CA6", "U+1CA7", "U+1CA8",
      "U+1CA9", "U+1CAA", "U+1CAB", "U+1CAC", "U+1CAD", "U+1CAE", "U+1CAF", "U+1CB0",
      "U+1CB1", "U+1CB2", "U+1CB3", "U+1CB4", "U+1CB5", "U+1CB6", "U+1CB7", "U+1CB8",
      "U+1CB9", "U+1CBA", "U+1CBD", "U+1CBE", "U+1CBF", "U+13F0", "U+13F1", "U+13F2",
      "U+13F3", "U+13F4", "U+13F5", "U+0412", "U+0414", "U+041E", "U+0421", "U+0422",
      "U+0422", "U+042A", "U+0462", "U+A64A", "U+1C89", "U+A77D", "U+2C63", "U+A7C6",
      "U+1E00", "U+1E02", "U+1E04", "U+1E06", "U+1E08", "U+1E0A", "U+1E0C", "U+1E0E",
      "U+1E10", "U+1E12", "U+1E14", "U+1E16", "U+1E18", "U+1E1A", "U+1E1C", "U+1E1E",
      "U+1E20", "U+1E22", "U+1E24", "U+1E26", "U+1E28", "U+1E2A", "U+1E2C", "U+1E2E",
      "U+1E30", "U+1E32", "U+1E34", "U+1E36", "U+1E38", "U+1E3A", "U+1E3C", "U+1E3E",
      "U+1E40", "U+1E42", "U+1E44", "U+1E46", "U+1E48", "U+1E4A", "U+1E4C", "U+1E4E",
      "U+1E50", "U+1E52", "U+1E54", "U+1E56", "U+1E58", "U+1E5A", "U+1E5C", "U+1E5E",
      "U+1E60", "U+1E62", "U+1E64", "U+1E66", "U+1E68", "U+1E6A", "U+1E6C", "U+1E6E",
      "U+1E70", "U+1E72", "U+1E74", "U+1E76", "U+1E78", "U+1E7A", "U+1E7C", "U+1E7E",
      "U+1E80", "U+1E82", "U+1E84", "U+1E86", "U+1E88", "U+1E8A", "U+1E8C", "U+1E8E",
      "U+1E90", "U+1E92", "U+1E94", "U+1E60", "U+1EA0", "U+1EA2", "U+1EA4", "U+1EA6",
      "U+1EA8", "U+1EAA", "U+1EAC", "U+1EAE", "U+1EB0", "U+1EB2", "U+1EB4", "U+1EB6",
      "U+1EB8", "U+1EBA", "U+1EBC", "U+1EBE", "U+1EC0", "U+1EC2", "U+1EC4", "U+1EC6",
      "U+1EC8", "U+1ECA", "U+1ECC", "U+1ECE", "U+1ED0", "U+1ED2", "U+1ED4", "U+1ED6",
      "U+1ED8", "U+1EDA", "U+1EDC", "U+1EDE", "U+1EE0", "U+1EE2", "U+1EE4", "U+1EE6",
      "U+1EE8", "U+1EEA", "U+1EEC", "U+1EEE", "U+1EF0", "U+1EF2", "U+1EF4", "U+1EF6",
      "U+1EF8", "U+1EFA", "U+1EFC", "U+1EFE", "U+1F08", "U+1F09", "U+1F0A", "U+1F0B",
      "U+1F0C", "U+1F0D", "U+1F0E", "U+1F0F", "U+1F18", "U+1F19", "U+1F1A", "U+1F1B",
      "U+1F1C", "U+1F1D", "U+1F28", "U+1F29", "U+1F2A", "U+1F2B", "U+1F2C", "U+1F2D",
      "U+1F2E", "U+1F2F", "U+1F38", "U+1F39", "U+1F3A", "U+1F3B", "U+1F3C", "U+1F3D",
      "U+1F3E", "U+1F3F", "U+1F48", "U+1F49", "U+1F4A", "U+1F4B", "U+1F4C", "U+1F4D",
      "U+1F59", "U+1F5B", "U+1F5D", "U+1F5F", "U+1F68", "U+1F69", "U+1F6A", "U+1F6B",
      "U+1F6C", "U+1F6D", "U+1F6E", "U+1F6F", "U+1FBA", "U+1FBB", "U+1FC8", "U+1FC9",
      "U+1FCA", "U+1FCB", "U+1FDA", "U+1FDB", "U+1FF8", "U+1FF9", "U+1FEA", "U+1FEB",
      "U+1FFA", "U+1FFB", "U+1FB8", "U+1FB9", "U+0399", "U+1FD8", "U+1FD9", "U+1FE8",
      "U+1FE9", "U+1FEC", "U+2132", "U+2160", "U+2161", "U+2162", "U+2163", "U+2164",
      "U+2165", "U+2166", "U+2167", "U+2168", "U+2169", "U+216A", "U+216B", "U+216C",
      "U+216D", "U+216E", "U+216F", "U+2183", "U+24B6", "U+24B7", "U+24B8", "U+24B9",
      "U+24BA", "U+24BB", "U+24BC", "U+24BD", "U+24BE", "U+24BF", "U+24C0", "U+24C1",
      "U+24C2", "U+24C3", "U+24C4", "U+24C5", "U+24C6", "U+24C7", "U+24C8", "U+24C9",
      "U+24CA", "U+24CB", "U+24CC", "U+24CD", "U+24CE", "U+24CF", "U+2C00", "U+2C01",
      "U+2C02", "U+2C03", "U+2C04", "U+2C05", "U+2C06", "U+2C07", "U+2C08", "U+2C09",
      "U+2C0A", "U+2C0B", "U+2C0C", "U+2C0D", "U+2C0E", "U+2C0F", "U+2C10", "U+2C11",
      "U+2C12", "U+2C13", "U+2C14", "U+2C15", "U+2C16", "U+2C17", "U+2C18", "U+2C19",
      "U+2C1A", "U+2C1B", "U+2C1C", "U+2C1D", "U+2C1E", "U+2C1F", "U+2C20", "U+2C21",
      "U+2C22", "U+2C23", "U+2C24", "U+2C25", "U+2C26", "U+2C27", "U+2C28", "U+2C29",
      "U+2C2A", "U+2C2B", "U+2C2C", "U+2C2D", "U+2C2E", "U+2C2F", "U+2C60", "U+023A",
      "U+023E", "U+2C67", "U+2C69", "U+2C6B", "U+2C72", "U+2C75", "U+2C80", "U+2C82",
      "U+2C84", "U+2C86", "U+2C88", "U+2C8A", "U+2C8C", "U+2C8E", "U+2C90", "U+2C92",
      "U+2C94", "U+2C96", "U+2C98", "U+2C9A", "U+2C9C", "U+2C9E", "U+2CA0", "U+2CA2",
      "U+2CA4", "U+2CA6", "U+2CA8", "U+2CAA", "U+2CAC", "U+2CAE", "U+2CB0", "U+2CB2",
      "U+2CB4", "U+2CB6", "U+2CB8", "U+2CBA", "U+2CBC", "U+2CBE", "U+2CC0", "U+2CC2",
      "U+2CC4", "U+2CC6", "U+2CC8", "U+2CCA", "U+2CCC", "U+2CCE", "U+2CD0", "U+2CD2",
      "U+2CD4", "U+2CD6", "U+2CD8", "U+2CDA", "U+2CDC", "U+2CDE", "U+2CE0", "U+2CE2",
      "U+2CEB", "U+2CED", "U+2CF2", "U+10A0", "U+10A1", "U+10A2", "U+10A3", "U+10A4",
      "U+10A5", "U+10A6", "U+10A7", "U+10A8", "U+10A9", "U+10AA", "U+10AB", "U+10AC",
      "U+10AD", "U+10AE", "U+10AF", "U+10B0", "U+10B1", "U+10B2", "U+10B3", "U+10B4",
      "U+10B5", "U+10B6", "U+10B7", "U+10B8", "U+10B9", "U+10BA", "U+10BB", "U+10BC",
      "U+10BD", "U+10BE", "U+10BF", "U+10C0", "U+10C1", "U+10C2", "U+10C3", "U+10C4",
      "U+10C5", "U+10C7", "U+10CD", "U+A640", "U+A642", "U+A644", "U+A646", "U+A648",
      "U+A64A", "U+A64C", "U+A64E", "U+A650", "U+A652", "U+A654", "U+A656", "U+A658",
      "U+A65A", "U+A65C", "U+A65E", "U+A660", "U+A662", "U+A664", "U+A666", "U+A668",
      "U+A66A", "U+A66C", "U+A680", "U+A682", "U+A684", "U+A686", "U+A688", "U+A68A",
      "U+A68C", "U+A68E", "U+A690", "U+A692", "U+A694", "U+A696", "U+A698", "U+A69A",
      "U+A722", "U+A724", "U+A726", "U+A728", "U+A72A", "U+A72C", "U+A72E", "U+A732",
      "U+A734", "U+A736", "U+A738", "U+A73A", "U+A73C", "U+A73E", "U+A740", "U+A742",
      "U+A744", "U+A746", "U+A748", "U+A74A", "U+A74C", "U+A74E", "U+A750", "U+A752",
      "U+A754", "U+A756", "U+A758", "U+A75A", "U+A75C", "U+A75E", "U+A760", "U+A762",
      "U+A764", "U+A766", "U+A768", "U+A76A", "U+A76C", "U+A76E", "U+A779", "U+A77B",
      "U+A77E", "U+A780", "U+A782", "U+A784", "U+A786", "U+A78B", "U+A790", "U+A792",
      "U+A7C4", "U+A796", "U+A798", "U+A79A", "U+A79C", "U+A79E", "U+A7A0", "U+A7A2",
      "U+A7A4", "U+A7A6", "U+A7A8", "U+A7B4", "U+A7B6", "U+A7B8", "U+A7BA", "U+A7BC",
      "U+A7BE", "U+A7C0", "U+A7C2", "U+A7C7", "U+A7C9", "U+A7CC", "U+A7CE", "U+A7D0",
      "U+A7D2", "U+A7D4", "U+A7D6", "U+A7D8", "U+A7DA", "U+A7F5", "U+A7B3", "U+13A0",
      "U+13A1", "U+13A2", "U+13A3", "U+13A4", "U+13A5", "U+13A6", "U+13A7", "U+13A8",
      "U+13A9", "U+13AA", "U+13AB", "U+13AC", "U+13AD", "U+13AE", "U+13AF", "U+13B0",
      "U+13B1", "U+13B2", "U+13B3", "U+13B4", "U+13B5", "U+13B6", "U+13B7", "U+13B8",
      "U+13B9", "U+13BA", "U+13BB", "U+13BC", "U+13BD", "U+13BE", "U+13BF", "U+13C0",
      "U+13C1", "U+13C2", "U+13C3", "U+13C4", "U+13C5", "U+13C6", "U+13C7", "U+13C8",
      "U+13C9", "U+13CA", "U+13CB", "U+13CC", "U+13CD", "U+13CE", "U+13CF", "U+13D0",
      "U+13D1", "U+13D2", "U+13D3", "U+13D4", "U+13D5", "U+13D6", "U+13D7", "U+13D8",
      "U+13D9", "U+13DA", "U+13DB", "U+13DC", "U+13DD", "U+13DE", "U+13DF", "U+13E0",
      "U+13E1", "U+13E2", "U+13E3", "U+13E4", "U+13E5", "U+13E6", "U+13E7", "U+13E8",
      "U+13E9", "U+13EA", "U+13EB", "U+13EC", "U+13ED", "U+13EE", "U+13EF", "U+FF21",
      "U+FF22", "U+FF23", "U+FF24", "U+FF25", "U+FF26", "U+FF27", "U+FF28", "U+FF29",
      "U+FF2A", "U+FF2B", "U+FF2C", "U+FF2D", "U+FF2E", "U+FF2F", "U+FF30", "U+FF31",
      "U+FF32", "U+FF33", "U+FF34", "U+FF35", "U+FF36", "U+FF37", "U+FF38", "U+FF39",
      "U+FF3A", "U+10400", "U+10401", "U+10402", "U+10403", "U+10404", "U+10405", "U+10406",
      "U+10407", "U+10408", "U+10409", "U+1040A", "U+1040B", "U+1040C", "U+1040D", "U+1040E",
      "U+1040F", "U+10410", "U+10411", "U+10412", "U+10413", "U+10414", "U+10415", "U+10416",
      "U+10417", "U+10418", "U+10419", "U+1041A", "U+1041B", "U+1041C", "U+1041D", "U+1041E",
      "U+1041F", "U+10420", "U+10421", "U+10422", "U+10423", "U+10424", "U+10425", "U+10426",
      "U+10427", "U+104B0", "U+104B1", "U+104B2", "U+104B3", "U+104B4", "U+104B5", "U+104B6",
      "U+104B7", "U+104B8", "U+104B9", "U+104BA", "U+104BB", "U+104BC", "U+104BD", "U+104BE",
      "U+104BF", "U+104C0", "U+104C1", "U+104C2", "U+104C3", "U+104C4", "U+104C5", "U+104C6",
      "U+104C7", "U+104C8", "U+104C9", "U+104CA", "U+104CB", "U+104CC", "U+104CD", "U+104CE",
      "U+104CF", "U+104D0", "U+104D1", "U+104D2", "U+104D3", "U+10570", "U+10571", "U+10572",
      "U+10573", "U+10574", "U+10575", "U+10576", "U+10577", "U+10578", "U+10579", "U+1057A",
      "U+1057C", "U+1057D", "U+1057E", "U+1057F", "U+10580", "U+10581", "U+10582", "U+10583",
      "U+10584", "U+10585", "U+10586", "U+10587", "U+10588", "U+10589", "U+1058A", "U+1058C",
      "U+1058D", "U+1058E", "U+1058F", "U+10590", "U+10591", "U+10592", "U+10594", "U+10595",
      "U+10C80", "U+10C81", "U+10C82", "U+10C83", "U+10C84", "U+10C85", "U+10C86", "U+10C87",
      "U+10C88", "U+10C89", "U+10C8A", "U+10C8B", "U+10C8C", "U+10C8D", "U+10C8E", "U+10C8F",
      "U+10C90", "U+10C91", "U+10C92", "U+10C93", "U+10C94", "U+10C95", "U+10C96", "U+10C97",
      "U+10C98", "U+10C99", "U+10C9A", "U+10C9B", "U+10C9C", "U+10C9D", "U+10C9E", "U+10C9F",
      "U+10CA0", "U+10CA1", "U+10CA2", "U+10CA3", "U+10CA4", "U+10CA5", "U+10CA6", "U+10CA7",
      "U+10CA8", "U+10CA9", "U+10CAA", "U+10CAB", "U+10CAC", "U+10CAD", "U+10CAE", "U+10CAF",
      "U+10CB0", "U+10CB1", "U+10CB2", "U+10D50", "U+10D51", "U+10D52", "U+10D53", "U+10D54",
      "U+10D55", "U+10D56", "U+10D57", "U+10D58", "U+10D59", "U+10D5A", "U+10D5B", "U+10D5C",
      "U+10D5D", "U+10D5E", "U+10D5F", "U+10D60", "U+10D61", "U+10D62", "U+10D63", "U+10D64",
      "U+10D65", "U+118A0", "U+118A1", "U+118A2", "U+118A3", "U+118A4", "U+118A5", "U+118A6",
      "U+118A7", "U+118A8", "U+118A9", "U+118AA", "U+118AB", "U+118AC", "U+118AD", "U+118AE",
      "U+118AF", "U+118B0", "U+118B1", "U+118B2", "U+118B3", "U+118B4", "U+118B5", "U+118B6",
      "U+118B7", "U+118B8", "U+118B9", "U+118BA", "U+118BB", "U+118BC", "U+118BD", "U+118BE",
      "U+118BF", "U+16E40", "U+16E41", "U+16E42", "U+16E43", "U+16E44", "U+16E45", "U+16E46",
      "U+16E47", "U+16E48", "U+16E49", "U+16E4A", "U+16E4B", "U+16E4C", "U+16E4D", "U+16E4E",
      "U+16E4F", "U+16E50", "U+16E51", "U+16E52", "U+16E53", "U+16E54", "U+16E55", "U+16E56",
      "U+16E57", "U+16E58", "U+16E59", "U+16E5A", "U+16E5B", "U+16E5C", "U+16E5D", "U+16E5E",
      "U+16E5F", "U+16EA0", "U+16EA1", "U+16EA2", "U+16EA3", "U+16EA4", "U+16EA5", "U+16EA6",
      "U+16EA7", "U+16EA8", "U+16EA9", "U+16EAA", "U+16EAB", "U+16EAC", "U+16EAD", "U+16EAE",
      "U+16EAF", "U+16EB0", "U+16EB1", "U+16EB2", "U+16EB3", "U+16EB4", "U+16EB5", "U+16EB6",
      "U+16EB7", "U+16EB8", "U+1E900", "U+1E901", "U+1E902", "U+1E903", "U+1E904", "U+1E905",
      "U+1E906", "U+1E907", "U+1E908", "U+1E909", "U+1E90A", "U+1E90B", "U+1E90C", "U+1E90D",
      "U+1E90E", "U+1E90F", "U+1E910", "U+1E911", "U+1E912", "U+1E913", "U+1E914", "U+1E915",
      "U+1E916", "U+1E917", "U+1E918", "U+1E919", "U+1E91A", "U+1E91B", "U+1E91C", "U+1E91D",
      "U+1E91E", "U+1E91F", "U+1E920", "U+1E921"
    >>

\* The characters whose uppercase (char::to_uppercase) has two characters.
ToUpperFrom2 ==
    <<
      "U+00DF", "U+0149", "U+01F0", "U+0587", "U+1E96", "U+1E97", "U+1E98", "U+1E99",
      "U+1E9A", "U+1F50", "U+1F80", "U+1F81", "U+1F82", "U+1F83", "U+1F84", "U+1F85",
      "U+1F86", "U+1F87", "U+1F88", "U+1F89", "U+1F8A", "U+1F8B", "U+1F8C", "U+1F8D",
      "U+1F8E", "U+1F8F", "U+1F90", "U+1F91", "U+1F92", "U+1F93", "U+1F94", "U+1F95",
      "U+1F96", "U+1F97", "U+1F98", "U+1F99", "U+1F9A", "U+1F9B", "U+1F9C", "U+1F9D",
      "U+1F9E", "U+1F9F", "U+1FA0", "U+1FA1", "U+1FA2", "U+1FA3", "U+1FA4", "U+1FA5",
      "U+1FA6", "U+1FA7", "U+1FA8", "U+1FA9", "U+1FAA", "U+1FAB", "U+1FAC", "U+1FAD",
      "U+1FAE", "U+1FAF", "U+1FB2", "U+1FB3", "U+1FB4", "U+1FB6", "U+1FBC", "U+1FC2",
      "U+1FC3", "U+1FC4", "U+1FC6", "U+1FCC", "U+1FD6", "U+1FE4", "U+1FE6", "U+1FF2",
      "U+1FF3", "U+1FF4", "U+1FF6", "U+1FFC", "U+FB00", "U+FB01", "U+FB02", "U+FB05",
      "U+FB06", "U+FB13", "U+FB14", "U+FB15", "U+FB16", "U+FB17"
    >>

\* Of each, in the same order, the first character of the uppercase (char::to_uppercase).
ToUpperTo2a ==
    <<
      "S", "U+02BC", "J", "U+0535", "H", "T", "W", "Y",
      "A", "U+03A5", "U+1F08", "U+1F09", "U+1F0A", "U+1F0B", "U+1F0C", "U+1F0D",
      "U+1F0E", "U+1F0F", "U+1F08", "U+1F09", "U+1F0A", "U+1F0B", "U+1F0C", "U+1F0D",
      "U+1F0E", "U+1F0F", "U+1F28", "U+1F29", "U+1F2A", "U+1F2B", "U+1F2C", "U+1F2D",
      "U+1F2E", "U+1F2F", "U+1F28", "U+1F29", "U+1F2A", "U+1F2B", "U+1F2C", "U+1F2D",
      "U+1F2E", "U+1F2F", "U+1F68", "U+1F69", "U+1F6A", "U+1F6B", "U+1F6C", "U+1F6D",
      "U+1F6E", "U+1F6F", "U+1F68", "U+1F69", "U+1F6A", "U+1F6B", "U+1F6C", "U+1F6D",
      "U+1F6E", "U+1F6F", "U+1FBA", "U+0391", "U+0386", "U+0391", "U+0391", "U+1FCA",
      "U+0397", "U+0389", "U+0397", "U+0397", "U+0399", "U+03A1", "U+03A5", "U+1FFA",
      "U+03A9", "U+038F", "U+03A9", "U+03A9", "F", "F", "F", "S",
      "S", "U+0544", "U+0544", "U+0544", "U+054E", "U+0544"
    >>

\* Of each, in the same order, the second character of the uppercase (char::to_uppercase).
ToUpperTo2b ==
    <<
      "S", "N", "U+030C", "U+0552", "U+0331", "U+0308", "U+030A", "U+030A",
      "U+02BE", "U+0313", "U+0399", "U+0399", "U+0399", "U+0399", "U+0399", "U+0399",
      "U+0399", "U+0399", "U+0399", "U+0399", "U+0399", "U+0399", "U+0399", "U+0399",
      "U+0399", "U+0399", "U+0399", "U+0399", "U+0399", "U+0399", "U+0399", "U+0399",
      "U+0399", "U+0399", "U+0399", "U+0399", "U+0399", "U+0399", "U+0399", "U+0399",
      "U+0399", "U+0399", "U+0399", "U+0399", "U+0399", "U+0399", "U+0399", "U+0399",
      "U+0399", "U+0399", "U+0399", "U+0399", "U+0399", "U+0399", "U+0399", "U+0399",
      "U+0399", "U+0399", "U+0399", "U+0399", "U+0399", "U+0342", "U+0399", "U+0399",
      "U+0399", "U+0399", "U+0342", "U+0399", "U+0342", "U+0313", "U+0342", "U+0399",
      "U+0399", "U+0399", "U+0342", "U+0399", "F", "I", "L", "T",
      "T", "U+0546", "U+0535", "U+053B", "U+0546", "U+053D"
    >>

\* The characters whose uppercase (char::to_uppercase) has three characters.
ToUpperFrom3 ==
    <<
      "U+0390", "U+03B0", "U+1F52", "U+1F54", "U+1F56", "U+1FB7", "U+1FC7", "U+1FD2",
      "U+1FD3", "U+1FD7", "U+1FE2", "U+1FE3", "U+1FE7", "U+1FF7", "U+FB03", "U+FB04"
    >>

\* Of each, in the same order, the first character of the uppercase (char::to_uppercase).
ToUpperTo3a ==
    <<
      "U+0399", "U+03A5", "U+03A5", "U+03A5", "U+03A5", "U+0391", "U+0397", "U+0399",
      "U+0399", "U+0399", "U+03A5", "U+03A5", "U+03A5", "U+03A9", "F", "F"
    >>

\* Of each, in the same order, the second character of the uppercase (char::to_uppercase).
ToUpperTo3b ==
    <<
      "U+0308", "U+0308", "U+0313", "U+0313", "U+0313", "U+0342", "U+0342", "U+0308",
      "U+0308", "U+0308", "U+0308", "U+0308", "U+0308", "U+0342", "F", "F"
    >>

\* Of each, in the same order, the third character of the uppercase (char::to_uppercase).
ToUpperTo3c ==
    <<
      "U+0301", "U+0301", "U+0300", "U+0301", "U+0342", "U+0399", "U+0399", "U+0300",
      "U+0301", "U+0342", "U+0300", "U+0301", "U+0342", "U+0399", "I", "L"
    >>

(***************************************************************************)
(* Characters and strings                                                  *)
(***************************************************************************)
\* The uppercase letters of ASCII.
UpperSeq ==
    <<"A", "B", "C", "D", "E", "F", "G", "H", "I", "J", "K", "L", "M",
      "N", "O", "P", "Q", "R", "S", "T", "U", "V", "W", "X", "Y", "Z">>

\* The lowercase letter of each, in the same order.
LowerSeq ==
    <<"a", "b", "c", "d", "e", "f", "g", "h", "i", "j", "k", "l", "m",
      "n", "o", "p", "q", "r", "s", "t", "u", "v", "w", "x", "y", "z">>

\* char::is_uppercase: the Unicode property Uppercase.
IsUpper(c) ==
    \/ \E i \in DOMAIN UpperSeq : UpperSeq[i] = c
    \/ c \in UppercaseOutsideAscii

\* char::is_lowercase: the Unicode property Lowercase.
IsLower(c) ==
    \/ \E i \in DOMAIN LowerSeq : LowerSeq[i] = c
    \/ c \in LowercaseOutsideAscii

\* The place of c in a table, 0 when it is not there.
IndexIn(table, c) ==
    IF \E i \in DOMAIN table : table[i] = c
    THEN CHOOSE i \in DOMAIN table : table[i] = c
    ELSE 0

\* char::to_uppercase: the characters of the uppercase of c (more than one
\* for a few: the sharp s has "SS").
to_uppercase(c) ==
    IF IndexIn(LowerSeq, c) # 0 THEN <<UpperSeq[IndexIn(LowerSeq, c)]>>
    ELSE IF IndexIn(ToUpperFrom, c) # 0 THEN <<ToUpperTo[IndexIn(ToUpperFrom, c)]>>
    ELSE IF IndexIn(ToUpperFrom2, c) # 0
    THEN <<ToUpperTo2a[IndexIn(ToUpperFrom2, c)], ToUpperTo2b[IndexIn(ToUpperFrom2, c)]>>
    ELSE IF IndexIn(ToUpperFrom3, c) # 0
    THEN <<ToUpperTo3a[IndexIn(ToUpperFrom3, c)], ToUpperTo3b[IndexIn(ToUpperFrom3, c)],
           ToUpperTo3c[IndexIn(ToUpperFrom3, c)]>>
    ELSE <<c>>

\* char::to_lowercase
to_lowercase(c) ==
    IF IndexIn(UpperSeq, c) # 0 THEN <<LowerSeq[IndexIn(UpperSeq, c)]>>
    ELSE IF IndexIn(ToLowerFrom, c) # 0 THEN <<ToLowerTo[IndexIn(ToLowerFrom, c)]>>
    ELSE IF IndexIn(ToLowerFrom2, c) # 0
    THEN <<ToLowerTo2a[IndexIn(ToLowerFrom2, c)], ToLowerTo2b[IndexIn(ToLowerFrom2, c)]>>
    ELSE <<c>>

None == <<>>

Some(v) == <<v>>

IsSome(o) == o # <<>>

\* All sequences over S of length at most n.
RECURSIVE SeqsUpTo(_, _)
SeqsUpTo(S, n) ==
    IF n = 0 THEN {<<>>}
    ELSE LET shorter == SeqsUpTo(S, n - 1)
         IN  shorter \cup {Append(s, x) : s \in shorter, x \in S}

StartsWith(s, p) ==
    /\ Len(p) <= Len(s)
    /\ SubSeq(s, 1, Len(p)) = p

\* &s[n..]
DropFirst(s, n) == SubSeq(s, n + 1, Len(s))

\* str::split(sep): the pieces between the separators; "" splits to [""].
RECURSIVE SplitFrom(_, _, _, _)
SplitFrom(s, sep, cur, acc) ==
    IF s = <<>> THEN Append(acc, cur)
    ELSE IF Head(s) = sep THEN SplitFrom(Tail(s), sep, <<>>, Append(acc, cur))
    ELSE SplitFrom(Tail(s), sep, Append(cur, Head(s)), acc)

Split(s, sep) == SplitFrom(s, sep, <<>>, <<>>)

\* Itertools::join(sep)
RECURSIVE Join(_, _)
Join(parts, sep) ==
    IF parts = <<>> THEN <<>>
    ELSE IF Len(parts) = 1 THEN parts[1]
    ELSE parts[1] \o sep \o Join(Tail(parts), sep)

\* str::rfind(c): the index (from 1) of the last occurrence, 0 when there is none.
RFind(s, c) ==
    IF \E i \in DOMAIN s : s[i] = c
    THEN CHOOSE i \in DOMAIN s : s[i] = c /\ \A j \in DOMAIN s : s[j] = c => j <= i
    ELSE 0

(***************************************************************************)
(* ident::to_snake and ident::to_upper_camel (the naming transforms).      *)
(* A word ends at an underscore, before an uppercase letter that follows   *)
(* a lowercase letter or a digit, and before the last uppercase letter of  *)
(* a run that is followed by a lowercase letter.                           *)
(***************************************************************************)
WordStart(s, i) ==
    \/ i = 1
    \/ s[i - 1] = "_"
    \/ /\ IsUpper(s[i])
       /\ \/ IsLower(s[i - 1])
          \/ /\ IsUpper(s[i - 1])
             /\ i < Len(s)
             /\ IsLower(s[i + 1])

RECURSIVE CamelFrom(_, _)
CamelFrom(s, i) ==
    IF i > Len(s) THEN <<>>
    ELSE IF s[i] = "_" THEN CamelFrom(s, i + 1)
    ELSE IF WordStart(s, i) THEN to_uppercase(s[i]) \o CamelFrom(s, i + 1)
    ELSE to_lowercase(s[i]) \o CamelFrom(s, i + 1)

to_upper_camel(s) == CamelFrom(s, 1)

RECURSIVE SnakeFrom(_, _, _)
SnakeFrom(s, i, started) ==
    IF i > Len(s) THEN <<>>
    ELSE IF s[i] = "_" THEN SnakeFrom(s, i + 1, started)
    ELSE IF WordStart(s, i) /\ started
         THEN <<"_">> \o to_lowercase(s[i]) \o SnakeFrom(s, i + 1, TRUE)
    ELSE to_lowercase(s[i]) \o SnakeFrom(s, i + 1, TRUE)

to_snake(s) == SnakeFrom(s, 1, FALSE)

(***************************************************************************)
(* strip_enum_prefix                                                       *)
(***************************************************************************)
\* A slip: the prefix is removed whatever follows it.
strip_enum_prefix_always(prefix, name) ==
    IF StartsWith(name, prefix) /\ Len(name) > Len(prefix)
    THEN DropFirst(name, Len(prefix))
    ELSE name

strip_enum_prefix(prefix, name) ==
    LET stripped == IF StartsWith(name, prefix)
                    THEN DropFirst(name, Len(prefix))
                    ELSE name
    IN  IF stripped # <<>> /\ IsUpper(Head(stripped))
        THEN stripped
        ELSE name

(***************************************************************************)
(* CodeGenerator::resolve_ident                                            *)
(***************************************************************************)
sSuper == <<"s", "u", "p", "e", "r">>

sColons == <<":", ":">>

sDot == <<".">>

\* A panic, and a returned value.
Panic == [panic |-> TRUE, val |-> <<>>]

Ok(v) == [panic |-> FALSE, val |-> v]

\* A slip: the scopes are compared from their first segments only.
SkipCommonFirstOnly(local_path, ident_path) ==
    IF /\ local_path # <<>>
       /\ ident_path # <<>>
       /\ Head(local_path) = Head(ident_path)
    THEN <<Tail(local_path), Tail(ident_path)>>
    ELSE <<local_path, ident_path>>

\* while local_path.peek().is_some() && local_path.peek() == ident_path.peek()
RECURSIVE SkipCommon(_, _)
SkipCommon(local_path, ident_path) ==
    IF /\ local_path # <<>>
       /\ ident_path # <<>>
       /\ Head(local_path) = Head(ident_path)
    THEN SkipCommon(Tail(local_path), Tail(ident_path))
    ELSE <<local_path, ident_path>>

\* A slip: no common prefix is dropped, every scope segment is left and re-entered.
resolve_ident_no_skip(package, pb_ident) ==
    IF pb_ident = <<>> \/ Head(pb_ident) # "."
    THEN Panic
    ELSE LET local_path == Split(package, ".")
             idents     == Split(Tail(pb_ident), ".")
             ident_type == idents[Len(idents)]
             ident_path == SubSeq(idents, 1, Len(idents) - 1)
         IN  Ok(Join([i \in DOMAIN local_path |-> sSuper]
                     \o [i \in DOMAIN ident_path |-> to_snake(ident_path[i])]
                     \o <<to_upper_camel(ident_type)>>,
                     sColons))

resolve_ident(package, pb_ident) ==
    IF pb_ident = <<>> \/ Head(pb_ident) # "."
    THEN Panic
    ELSE LET local_path == Split(package, ".")
             idents     == Split(Tail(pb_ident), ".")
             ident_type == idents[Len(idents)]
             ident_path == SubSeq(idents, 1, Len(idents) - 1)
             rest       == SkipCommon(local_path, ident_path)
         IN  Ok(Join([i \in DOMAIN rest[1] |-> sSuper]
                     \o [i \in DOMAIN rest[2] |-> to_snake(rest[2][i])]
                     \o <<to_upper_camel(ident_type)>>,
                     sColons))

(***************************************************************************)
(* CodeGenerator::well_known_type: the table of lines 716-764, each row a  *)
(* Protobuf type name and the Rust type that stands for it.                *)
(***************************************************************************)
WellKnownTypes ==
    <<
      \* .google.protobuf.BoolValue => bool
      <<<<".", "g", "o", "o", "g", "l", "e", ".", "p", "r", "o", "t", "o", "b", "u", "f", ".", "B", "o", "o", "l", "V", "a", "l", "u", "e">>,
        <<"b", "o", "o", "l">>>>,
      \* .google.protobuf.BytesValue => ::std::vec::Vec<u8>
      <<<<".", "g", "o", "o", "g", "l", "e", ".", "p", "r", "o", "t", "o", "b", "u", "f", ".", "B", "y", "t", "e", "s", "V", "a", "l", "u", "e">>,
        <<":", ":", "s", "t", "d", ":", ":", "v", "e", "c", ":", ":", "V", "e", "c", "<", "u", "8", ">">>>>,
      \* .google.protobuf.DoubleValue => f64
      <<<<".", "g", "o", "o", "g", "l", "e", ".", "p", "r", "o", "t", "o", "b", "u", "f", ".", "D", "o", "u", "b", "l", "e", "V", "a", "l", "u", "e">>,
        <<"f", "6", "4">>>>,
      \* .google.protobuf.Empty => ()
      <<<<".", "g", "o", "o", "g", "l", "e", ".", "p", "r", "o", "t", "o", "b", "u", "f", ".", "E", "m", "p", "t", "y">>,
        <<"(", ")">>>>,
      \* .google.protobuf.FloatValue => f32
      <<<<".", "g", "o", "o", "g", "l", "e", ".", "p", "r", "o", "t", "o", "b", "u", "f", ".", "F", "l", "o", "a", "t", "V", "a", "l", "u", "e">>,
        <<"f", "3", "2">>>>,
      \* .google.protobuf.Int32Value => i32
      <<<<".", "g", "o", "o", "g", "l", "e", ".", "p", "r", "o", "t", "o", "b", "u", "f", ".", "I", "n", "t", "3", "2", "V", "a", "l", "u", "e">>,
        <<"i", "3", "2">>>>,
      \* .google.protobuf.Int64Value => i64
      <<<<".", "g", "o", "o", "g", "l", "e", ".", "p", "r", "o", "t", "o", "b", "u", "f", ".", "I", "n", "t", "6", "4", "V", "a", "l", "u", "e">>,
        <<"i", "6", "4">>>>,
      \* .google.protobuf.StringValue => ::std::string::String
      <<<<".", "g", "o", "o", "g", "l", "e", ".", "p", "r", "o", "t", "o", "b", "u", "f", ".", "S", "t", "r", "i", "n", "g", "V", "a", "l", "u", "e">>,
        <<":", ":", "s", "t", "d", ":", ":", "s", "t", "r", "i", "n", "g", ":", ":", "S", "t", "r", "i", "n", "g">>>>,
      \* .google.protobuf.UInt32Value => u32
      <<<<".", "g", "o", "o", "g", "l", "e", ".", "p", "r", "o", "t", "o", "b", "u", "f", ".", "U", "I", "n", "t", "3", "2", "V", "a", "l", "u", "e">>,
        <<"u", "3", "2">>>>,
      \* .google.protobuf.UInt64Value => u64
      <<<<".", "g", "o", "o", "g", "l", "e", ".", "p", "r", "o", "t", "o", "b", "u", "f", ".", "U", "I", "n", "t", "6", "4", "V", "a", "l", "u", "e">>,
        <<"u", "6", "4">>>>,
      \* .google.protobuf.Any => ::prost_types::Any
      <<<<".", "g", "o", "o", "g", "l", "e", ".", "p", "r", "o", "t", "o", "b", "u", "f", ".", "A", "n", "y">>,
        <<":", ":", "p", "r", "o", "s", "t", "_", "t", "y", "p", "e", "s", ":", ":", "A", "n", "y">>>>,
      \* .google.protobuf.Api => ::prost_types::Api
      <<<<".", "g", "o", "o", "g", "l", "e", ".", "p", "r", "o", "t", "o", "b", "u", "f", ".", "A", "p", "i">>,
        <<":", ":", "p", "r", "o", "s", "t", "_", "t", "y", "p", "e", "s", ":", ":", "A", "p", "i">>>>,
      \* .google.protobuf.DescriptorProto => ::prost_types::DescriptorProto
      <<<<".", "g", "o", "o", "g", "l", "e", ".", "p", "r", "o", "t", "o", "b", "u", "f", ".", "D", "e", "s", "c", "r", "i", "p", "t", "o", "r", "P", "r", "o", "t", "o">>,
        <<":", ":", "p", "r", "o", "s", "t", "_", "t", "y", "p", "e", "s", ":", ":", "D", "e", "s", "c", "r", "i", "p", "t", "o", "r", "P", "r", "o", "t", "o">>>>,
      \* .google.protobuf.Duration => ::prost_types::Duration
      <<<<".", "g", "o", "o", "g", "l", "e", ".", "p", "r", "o", "t", "o", "b", "u", "f", ".", "D", "u", "r", "a", "t", "i", "o", "n">>,
        <<":", ":", "p", "r", "o", "s", "t", "_", "t", "y", "p", "e", "s", ":", ":", "D", "u", "r", "a", "t", "i", "o", "n">>>>,
      \* .google.protobuf.Enum => ::prost_types::Enum
      <<<<".", "g", "o", "o", "g", "l", "e", ".", "p", "r", "o", "t", "o", "b", "u", "f", ".", "E", "n", "u", "m">>,
        <<":", ":", "p", "r", "o", "s", "t", "_", "t", "y", "p", "e", "s", ":", ":", "E", "n", "u", "m">>>>,
      \* .google.protobuf.EnumDescriptorProto => ::prost_types::EnumDescriptorProt
      <<<<".", "g", "o", "o", "g", "l", "e", ".", "p", "r", "o", "t", "o", "b", "u", "f", ".", "E", "n", "u", "m", "D", "e", "s", "c", "r", "i", "p", "t", "o", "r", "P", "r", "o", "t", "o">>,
        <<":", ":", "p", "r", "o", "s", "t", "_", "t", "y", "p", "e", "s", ":", ":", "E", "n", "u", "m", "D", "e", "s", "c", "r", "i", "p", "t", "o", "r", "P", "r", "o", "t">>>>,
      \* .google.protobuf.EnumOptions => ::prost_types::EnumOptions
      <<<<".", "g", "o", "o", "g", "l", "e", ".", "p", "r", "o", "t", "o", "b", "u", "f", ".", "E", "n", "u", "m", "O", "p", "t", "i", "o", "n", "s">>,
        <<":", ":", "p", "r", "o", "s", "t", "_", "t", "y", "p", "e", "s", ":", ":", "E", "n", "u", "m", "O", "p", "t", "i", "o", "n", "s">>>>,
      \* .google.protobuf.EnumValue => ::prost_types::EnumValue
      <<<<".", "g", "o", "o", "g", "l", "e", ".", "p", "r", "o", "t", "o", "b", "u", "f", ".", "E", "n", "u", "m", "V", "a", "l", "u", "e">>,
        <<":", ":", "p", "r", "o", "s", "t", "_", "t", "y", "p", "e", "s", ":", ":", "E", "n", "u", "m", "V", "a", "l", "u", "e">>>>,
      \* .google.protobuf.EnumValueDescriptorProto => ::prost_types::EnumValueDescriptorProto
      <<<<".", "g", "o", "o", "g", "l", "e", ".", "p", "r", "o", "t", "o", "b", "u", "f", ".", "E", "n", "u", "m", "V", "a", "l", "u", "e", "D", "e", "s", "c", "r", "i", "p", "t", "o", "r", "P", "r", "o", "t", "o">>,
        <<":", ":", "p", "r", "o", "s", "t", "_", "t", "y", "p", "e", "s", ":", ":", "E", "n", "u", "m", "V", "a", "l", "u", "e", "D", "e", "s", "c", "r", "i", "p", "t", "o", "r", "P", "r", "o", "t", "o">>>>,
      \* .google.protobuf.EnumValueOptions => ::prost_types::EnumValueOptions
      <<<<".", "g", "o", "o", "g", "l", "e", ".", "p", "r", "o", "t", "o", "b", "u", "f", ".", "E", "n", "u", "m", "V", "a", "l", "u", "e", "O", "p", "t", "i", "o", "n", "s">>,
        <<":", ":", "p", "r", "o", "s", "t", "_", "t", "y", "p", "e", "s", ":", ":", "E", "n", "u", "m", "V", "a", "l", "u", "e", "O", "p", "t", "i", "o", "n", "s">>>>,
      \* .google.protobuf.ExtensionRangeOptions => ::prost_types::ExtensionRangeOptions
      <<<<".", "g", "o", "o", "g", "l", "e", ".", "p", "r", "o", "t", "o", "b", "u", "f", ".", "E", "x", "t", "e", "n", "s", "i", "o", "n", "R", "a", "n", "g", "e", "O", "p", "t", "i", "o", "n", "s">>,
        <<":", ":", "p", "r", "o", "s", "t", "_", "t", "y", "p", "e", "s", ":", ":", "E", "x", "t", "e", "n", "s", "i", "o", "n", "R", "a", "n", "g", "e", "O", "p", "t", "i", "o", "n", "s">>>>,
      \* .google.protobuf.Field => ::prost_types::Field
      <<<<".", "g", "o", "o", "g", "l", "e", ".", "p", "r", "o", "t", "o", "b", "u", "f", ".", "F", "i", "e", "l", "d">>,
        <<":", ":", "p", "r", "o", "s", "t", "_", "t", "y", "p", "e", "s", ":", ":", "F", "i", "e", "l", "d">>>>,
      \* .google.protobuf.FieldDescriptorProto => ::prost_types::FieldDescriptorProto
      <<<<".", "g", "o", "o", "g", "l", "e", ".", "p", "r", "o", "t", "o", "b", "u", "f", ".", "F", "i", "e", "l", "d", "D", "e", "s", "c", "r", "i", "p", "t", "o", "r", "P", "r", "o", "t", "o">>,
        <<":", ":", "p", "r", "o", "s", "t", "_", "t", "y", "p", "e", "s", ":", ":", "F", "i", "e", "l", "d", "D", "e", "s", "c", "r", "i", "p", "t", "o", "r", "P", "r", "o", "t", "o">>>>,
      \* .google.protobuf.FieldMask => ::prost_types::FieldMask
      <<<<".", "g", "o", "o", "g", "l", "e", ".", "p", "r", "o", "t", "o", "b", "u", "f", ".", "F", "i", "e", "l", "d", "M", "a", "s", "k">>,
        <<":", ":", "p", "r", "o", "s", "t", "_", "t", "y", "p", "e", "s", ":", ":", "F", "i", "e", "l", "d", "M", "a", "s", "k">>>>,
      \* .google.protobuf.FieldOptions => ::prost_types::FieldOptions
      <<<<".", "g", "o", "o", "g", "l", "e", ".", "p", "r", "o", "t", "o", "b", "u", "f", ".", "F", "i", "e", "l", "d", "O", "p", "t", "i", "o", "n", "s">>,
        <<":", ":", "p", "r", "o", "s", "t", "_", "t", "y", "p", "e", "s", ":", ":", "F", "i", "e", "l", "d", "O", "p", "t", "i", "o", "n", "s">>>>,
      \* .google.protobuf.FileDescriptorProto => ::prost_types::FileDescriptorProto
      <<<<".", "g", "o", "o", "g", "l", "e", ".", "p", "r", "o", "t", "o", "b", "u", "f", ".", "F", "i", "l", "e", "D", "e", "s", "c", "r", "i", "p", "t", "o", "r", "P", "r", "o", "t", "o">>,
        <<":", ":", "p", "r", "o", "s", "t", "_", "t", "y", "p", "e", "s", ":", ":", "F", "i", "l", "e", "D", "e", "s", "c", "r", "i", "p", "t", "o", "r", "P", "r", "o", "t", "o">>>>,
      \* .google.protobuf.FileDescriptorSet => ::prost_types::FileDescriptorSet
      <<<<".", "g", "o", "o", "g", "l", "e", ".", "p", "r", "o", "t", "o", "b", "u", "f", ".", "F", "i", "l", "e", "D", "e", "s", "c", "r", "i", "p", "t", "o", "r", "S", "e", "t">>,
        <<":", ":", "p", "r", "o", "s", "t", "_", "t", "y", "p", "e", "s", ":", ":", "F", "i", "l", "e", "D", "e", "s", "c", "r", "i", "p", "t", "o", "r", "S", "e", "t">>>>,
      \* .google.protobuf.FileOptions => ::prost_types::FileOptions
      <<<<".", "g", "o", "o", "g", "l", "e", ".", "p", "r", "o", "t", "o", "b", "u", "f", ".", "F", "i", "l", "e", "O", "p", "t", "i", "o", "n", "s">>,
        <<":", ":", "p", "r", "o", "s", "t", "_", "t", "y", "p", "e", "s", ":", ":", "F", "i", "l", "e", "O", "p", "t", "i", "o", "n", "s">>>>,
      \* .google.protobuf.GeneratedCodeInfo => ::prost_types::GeneratedCodeInfo
      <<<<".", "g", "o", "o", "g", "l", "e", ".", "p", "r", "o", "t", "o", "b", "u", "f", ".", "G", "e", "n", "e", "r", "a", "t", "e", "d", "C", "o", "d", "e", "I", "n", "f", "o">>,
        <<":", ":", "p", "r", "o", "s", "t", "_", "t", "y", "p", "e", "s", ":", ":", "G", "e", "n", "e", "r", "a", "t", "e", "d", "C", "o", "d", "e", "I", "n", "f", "o">>>>,
      \* .google.protobuf.ListValue => ::prost_types::ListValue
      <<<<".", "g", "o", "o", "g", "l", "e", ".", "p", "r", "o", "t", "o", "b", "u", "f", ".", "L", "i", "s", "t", "V", "a", "l", "u", "e">>,
        <<":", ":", "p", "r", "o", "s", "t", "_", "t", "y", "p", "e", "s", ":", ":", "L", "i", "s", "t", "V", "a", "l", "u", "e">>>>,
      \* .google.protobuf.MessageOptions => ::prost_types::MessageOptions
      <<<<".", "g", "o", "o", "g", "l", "e", ".", "p", "r", "o", "t", "o", "b", "u", "f", ".", "M", "e", "s", "s", "a", "g", "e", "O", "p", "t", "i", "o", "n", "s">>,
        <<":", ":", "p", "r", "o", "s", "t", "_", "t", "y", "p", "e", "s", ":", ":", "M", "e", "s", "s", "a", "g", "e", "O", "p", "t", "i", "o", "n", "s">>>>,
      \* .google.protobuf.Method => ::prost_types::Method
      <<<<".", "g", "o", "o", "g", "l", "e", ".", "p", "r", "o", "t", "o", "b", "u", "f", ".", "M", "e", "t", "h", "o", "d">>,
        <<":", ":", "p", "r", "o", "s", "t", "_", "t", "y", "p", "e", "s", ":", ":", "M", "e", "t", "h", "o", "d">>>>,
      \* .google.protobuf.MethodDescriptorProto => ::prost_types::MethodDescriptorProto
      <<<<".", "g", "o", "o", "g", "l", "e", ".", "p", "r", "o", "t", "o", "b", "u", "f", ".", "M", "e", "t", "h", "o", "d", "D", "e", "s", "c", "r", "i", "p", "t", "o", "r", "P", "r", "o", "t", "o">>,
        <<":", ":", "p", "r", "o", "s", "t", "_", "t", "y", "p", "e", "s", ":", ":", "M", "e", "t", "h", "o", "d", "D", "e", "s", "c", "r", "i", "p", "t", "o", "r", "P", "r", "o", "t", "o">>>>,
      \* .google.protobuf.MethodOptions => ::prost_types::MethodOptions
      <<<<".", "g", "o", "o", "g", "l", "e", ".", "p", "r", "o", "t", "o", "b", "u", "f", ".", "M", "e", "t", "h", "o", "d", "O", "p", "t", "i", "o", "n", "s">>,
        <<":", ":", "p", "r", "o", "s", "t", "_", "t", "y", "p", "e", "s", ":", ":", "M", "e", "t", "h", "o", "d", "O", "p", "t", "i", "o", "n", "s">>>>,
      \* .google.protobuf.Mixin => ::prost_types::Mixin
      <<<<".", "g", "o", "o", "g", "l", "e", ".", "p", "r", "o", "t", "o", "b", "u", "f", ".", "M", "i", "x", "i", "n">>,
        <<":", ":", "p", "r", "o", "s", "t", "_", "t", "y", "p", "e", "s", ":", ":", "M", "i", "x", "i", "n">>>>,
      \* .google.protobuf.NullValue => ::prost_types::NullValue
      <<<<".", "g", "o", "o", "g", "l", "e", ".", "p", "r", "o", "t", "o", "b", "u", "f", ".", "N", "u", "l", "l", "V", "a", "l", "u", "e">>,
        <<":", ":", "p", "r", "o", "s", "t", "_", "t", "y", "p", "e", "s", ":", ":", "N", "u", "l", "l", "V", "a", "l", "u", "e">>>>,
      \* .google.protobuf.OneofDescriptorProto => ::prost_types::OneofDescriptorProto
      <<<<".", "g", "o", "o", "g", "l", "e", ".", "p", "r", "o", "t", "o", "b", "u", "f", ".", "O", "n", "e", "o", "f", "D", "e", "s", "c", "r", "i", "p", "t", "o", "r", "P", "r", "o", "t", "o">>,
        <<":", ":", "p", "r", "o", "s", "t", "_", "t", "y", "p", "e", "s", ":", ":", "O", "n", "e", "o", "f", "D", "e", "s", "c", "r", "i", "p", "t", "o", "r", "P", "r", "o", "t", "o">>>>,
      \* .google.protobuf.OneofOptions => ::prost_types::OneofOptions
      <<<<".", "g", "o", "o", "g", "l", "e", ".", "p", "r", "o", "t", "o", "b", "u", "f", ".", "O", "n", "e", "o", "f", "O", "p", "t", "i", "o", "n", "s">>,
        <<":", ":", "p", "r", "o", "s", "t", "_", "t", "y", "p", "e", "s", ":", ":", "O", "n", "e", "o", "f", "O", "p", "t", "i", "o", "n", "s">>>>,
      \* .google.protobuf.Option => ::prost_types::Option
      <<<<".", "g", "o", "o", "g", "l", "e", ".", "p", "r", "o", "t", "o", "b", "u", "f", ".", "O", "p", "t", "i", "o", "n">>,
        <<":", ":", "p", "r", "o", "s", "t", "_", "t", "y", "p", "e", "s", ":", ":", "O", "p", "t", "i", "o", "n">>>>,
      \* .google.protobuf.ServiceDescriptorProto => ::prost_types::ServiceDescriptorProto
      <<<<".", "g", "o", "o", "g", "l", "e", ".", "p", "r", "o", "t", "o", "b", "u", "f", ".", "S", "e", "r", "v", "i", "c", "e", "D", "e", "s", "c", "r", "i", "p", "t", "o", "r", "P", "r", "o", "t", "o">>,
        <<":", ":", "p", "r", "o", "s", "t", "_", "t", "y", "p", "e", "s", ":", ":", "S", "e", "r", "v", "i", "c", "e", "D", "e", "s", "c", "r", "i", "p", "t", "o", "r", "P", "r", "o", "t", "o">>>>,
      \* .google.protobuf.ServiceOptions => ::prost_types::ServiceOptions
      <<<<".", "g", "o", "o", "g", "l", "e", ".", "p", "r", "o", "t", "o", "b", "u", "f", ".", "S", "e", "r", "v", "i", "c", "e", "O", "p", "t", "i", "o", "n", "s">>,
        <<":", ":", "p", "r", "o", "s", "t", "_", "t", "y", "p", "e", "s", ":", ":", "S", "e", "r", "v", "i", "c", "e", "O", "p", "t", "i", "o", "n", "s">>>>,
      \* .google.protobuf.SourceCodeInfo => ::prost_types::SourceCodeInfo
      <<<<".", "g", "o", "o", "g", "l", "e", ".", "p", "r", "o", "t", "o", "b", "u", "f", ".", "S", "o", "u", "r", "c", "e", "C", "o", "d", "e", "I", "n", "f", "o">>,
        <<":", ":", "p", "r", "o", "s", "t", "_", "t", "y", "p", "e", "s", ":", ":", "S", "o", "u", "r", "c", "e", "C", "o", "d", "e", "I", "n", "f", "o">>>>,
      \* .google.protobuf.SourceContext => ::prost_types::SourceContext
      <<<<".", "g", "o", "o", "g", "l", "e", ".", "p", "r", "o", "t", "o", "b", "u", "f", ".", "S", "o", "u", "r", "c", "e", "C", "o", "n", "t", "e", "x", "t">>,
        <<":", ":", "p", "r", "o", "s", "t", "_", "t", "y", "p", "e", "s", ":", ":", "S", "o", "u", "r", "c", "e", "C", "o", "n", "t", "e", "x", "t">>>>,
      \* .google.protobuf.Struct => ::prost_types::Struct
      <<<<".", "g", "o", "o", "g", "l", "e", ".", "p", "r", "o", "t", "o", "b", "u", "f", ".", "S", "t", "r", "u", "c", "t">>,
        <<":", ":", "p", "r", "o", "s", "t", "_", "t", "y", "p", "e", "s", ":", ":", "S", "t", "r", "u", "c", "t">>>>,
      \* .google.protobuf.Timestamp => ::prost_types::Timestamp
      <<<<".", "g", "o", "o", "g", "l", "e", ".", "p", "r", "o", "t", "o", "b", "u", "f", ".", "T", "i", "m", "e", "s", "t", "a", "m", "p">>,
        <<":", ":", "p", "r", "o", "s", "t", "_", "t", "y", "p", "e", "s", ":", ":", "T", "i", "m", "e", "s", "t", "a", "m", "p">>>>,
      \* .google.protobuf.Type => ::prost_types::Type
      <<<<".", "g", "o", "o", "g", "l", "e", ".", "p", "r", "o", "t", "o", "b", "u", "f", ".", "T", "y", "p", "e">>,
        <<":", ":", "p", "r", "o", "s", "t", "_", "t", "y", "p", "e", "s", ":", ":", "T", "y", "p", "e">>>>,
      \* .google.protobuf.UninterpretedOption => ::prost_types::UninterpretedOption
      <<<<".", "g", "o", "o", "g", "l", "e", ".", "p", "r", "o", "t", "o", "b", "u", "f", ".", "U", "n", "i", "n", "t", "e", "r", "p", "r", "e", "t", "e", "d", "O", "p", "t", "i", "o", "n">>,
        <<":", ":", "p", "r", "o", "s", "t", "_", "t", "y", "p", "e", "s", ":", ":", "U", "n", "i", "n", "t", "e", "r", "p", "r", "e", "t", "e", "d", "O", "p", "t", "i", "o", "n">>>>,
      \* .google.protobuf.Value => ::prost_types::Value
      <<<<".", "g", "o", "o", "g", "l", "e", ".", "p", "r", "o", "t", "o", "b", "u", "f", ".", "V", "a", "l", "u", "e">>,
        <<":", ":", "p", "r", "o", "s", "t", "_", "t", "y", "p", "e", "s", ":", ":", "V", "a", "l", "u", "e">>>>
    >>

(***************************************************************************)
(* The generator's state (struct CodeGenerator) is a record:               *)
(*   package      the dotted module scope, a string                        *)
(*   source_info  the locations kept and sorted by generate                *)
(*   syntax       "Proto2" or "Proto3"                                     *)
(*   depth, path  the indentation depth and the structural path            *)
(*   buf          the text written, line by line: each line is a record of *)
(*                its kind k, its indentation and its parts                *)
(*   services     what the configured ServiceGenerator was called with     *)
(*   aborted      a panic has unwound the pass                             *)
(*   calls        one record per returned call of a lowering method, with  *)
(*                the path, package and depth on entry and on exit         *)
(*   build        the toolchain the generator was built with:              *)
(*                overflow_checks, whether integer overflow panics (it     *)
(*                wraps otherwise), and equal_pick, which of several equal *)
(*                entries the binary search of its std returns             *)
(* The environment e holds what the pass only reads: e.config (Config)     *)
(* and e.graph (the MessageGraph).                                         *)
(***************************************************************************)
\* No generator: generate has not built one.
NoGen == <<>>

Abort(g) == [g EXCEPT !.aborted = TRUE]

\* A panic at this point of the pass, when cond holds.
AbortIf(g, cond) == IF cond THEN Abort(g) ELSE g

\* Once a panic unwinds the pass, no statement after it runs: every step
\* below leaves an aborted state as it is.
Emit(g, line) == IF g.aborted THEN g ELSE [g EXCEPT !.buf = Append(@, line)]

\* A slip: the index is pushed and never popped.
PopPathForgotten(g) == g

\* self.path.pop()
PopPath(g) == IF g.aborted THEN g ELSE [g EXCEPT !.path = SubSeq(@, 1, Len(@) - 1)]

\* self.path.push(i)
PushPath(g, i) == IF g.aborted THEN g ELSE [g EXCEPT !.path = Append(@, i)]

\* depth: u8
MaxDepth == 255

\* self.depth += by on a u8: past either end it panics where the build checks
\* overflow and wraps where it does not.
DepthStep(g, by) ==
    IF g.depth + by >= 0 /\ g.depth + by <= MaxDepth THEN [g EXCEPT !.depth = @ + by]
    ELSE IF g.build.overflow_checks THEN Abort(g)
    ELSE [g EXCEPT !.depth = (@ + by) % (MaxDepth + 1)]

\* self.depth += 1 and self.depth -= 1
Indent(g) == IF g.aborted THEN g ELSE DepthStep(g, 1)

Dedent(g) == IF g.aborted THEN g ELSE DepthStep(g, -1)

Frame(g) == [path |-> g.path, package |-> g.package, depth |-> g.depth]

\* The record of a call that returned: entered in state g, left in state h.
Returned(fn, what, g, h) ==
    IF h.aborted THEN h
    ELSE [h EXCEPT !.calls =
             Append(@, [fn |-> fn, what |-> what, entry |-> Frame(g), exit |-> Frame(h),
                        from |-> Len(g.buf), to |-> Len(h.buf)])]

\* Vec<i32>'s order: lexicographic, a proper prefix first.
LexLess(p, q) ==
    \E k \in 1..Len(q) :
        /\ k <= Len(p) + 1
        /\ SubSeq(p, 1, k - 1) = SubSeq(q, 1, k - 1)
        /\ k = Len(p) + 1 \/ p[k] < q[k]

\* source_info.location.retain(|location| len > 0 && len % 2 == 0)
RetainLocations(locations) ==
    SelectSeq(locations, LAMBDA l : Len(l.path) > 0 /\ Len(l.path) % 2 = 0)

RECURSIVE InsertByPath(_, _)
InsertByPath(sorted, loc) ==
    IF sorted = <<>> THEN <<loc>>
    ELSE IF LexLess(loc.path, Head(sorted).path) THEN <<loc>> \o sorted
    ELSE <<Head(sorted)>> \o InsertByPath(Tail(sorted), loc)

\* A slip: the locations are searched in the order protoc wrote them in.
SortByPathSkipped(locations) == locations

\* source_info.location.sort_by_key(|location| location.path.clone()): stable.
RECURSIVE SortByPath(_)
SortByPath(locations) ==
    IF locations = <<>> THEN <<>>
    ELSE InsertByPath(SortByPath(SubSeq(locations, 1, Len(locations) - 1)),
                      locations[Len(locations)])

\* The bisection of locations[lo .. hi-1] for the key: an index that holds
\* it, or 0.
RECURSIVE Bisect(_, _, _, _)
Bisect(locations, key, lo, hi) ==
    IF lo >= hi THEN 0
    ELSE LET mid == lo + ((hi - lo) \div 2)
         IN  IF locations[mid].path = key THEN mid
             ELSE IF LexLess(locations[mid].path, key)
                  THEN Bisect(locations, key, mid + 1, hi)
                  ELSE Bisect(locations, key, lo, mid)

\* The entries next to each other around the one found that hold the key.
EqualRun(locations, key, found) ==
    {i \in DOMAIN locations :
        \A j \in (IF i < found THEN i ELSE found)..(IF i < found THEN found ELSE i) :
            locations[j].path = key}

\* binary_search_by_key: the index found, or 0 for Err.  Of several entries
\* with the key any one may be returned, and which one changes with the
\* version of std: pick chooses among them.
BinarySearch(locations, key, pick) ==
    IF Bisect(locations, key, 1, Len(locations) + 1) = 0 THEN 0
    ELSE CHOOSE i \in EqualRun(locations, key, Bisect(locations, key, 1, Len(locations) + 1)) :
             Cardinality({j \in EqualRun(locations, key,
                                         Bisect(locations, key, 1, Len(locations) + 1)) : j < i})
                 = pick % Cardinality(EqualRun(locations, key,
                                               Bisect(locations, key, 1, Len(locations) + 1)))

\* CodeGenerator::location: the index of the location of the current path;
\* 0 stands for the unwrap of a failed search.
location(g) == BinarySearch(g.source_info, g.path, g.build.equal_pick)

\* Comments::from_location(..).append_with_indent(depth, buf)
append_with_indent(g, loc) ==
    Emit(g, [k |-> "doc", depth |-> g.depth, text |-> loc.comment])

append_doc(g) ==
    IF g.aborted THEN g
    ELSE LET idx == location(g)
         IN  IF idx = 0 THEN Abort(g) ELSE append_with_indent(g, g.source_info[idx])

\* ident::match_ident: "." matches everything; otherwise the matcher's
\* segments end the identifier's, or (with a leading dot) begin them.
match_ident(matcher, msg, field) ==
    LET match_paths == Split(matcher, ".")
        ident_paths == Split(msg, ".") \o (IF IsSome(field) THEN Split(field[1], ".") ELSE <<>>)
        n == Len(match_paths)
        m == Len(ident_paths)
    IN  IF matcher = <<>> THEN FALSE
        ELSE IF matcher = sDot THEN TRUE
        ELSE /\ n <= m
             /\ \/ SubSeq(ident_paths, m - n + 1, m) = match_paths
                \/ Head(matcher) = "." /\ SubSeq(ident_paths, 1, n) = match_paths

\* The lines of the attributes whose matcher matches, in the table's order.
AttributeLines(g, table, msg_name, field) ==
    LET hits == SelectSeq(table, LAMBDA row : match_ident(row[1], msg_name, field))
    IN  [i \in DOMAIN hits |-> [k |-> "attribute", depth |-> g.depth, text |-> hits[i][2]]]

append_type_attributes(g, e, msg_name) ==
    IF g.aborted THEN g
    ELSE IF msg_name = <<>> \/ Head(msg_name) # "." THEN Abort(g)
    ELSE [g EXCEPT !.buf = @ \o AttributeLines(g, e.config.type_attributes, msg_name, None)]

append_field_attributes(g, e, msg_name, field_name) ==
    IF g.aborted THEN g
    ELSE IF msg_name = <<>> \/ Head(msg_name) # "." THEN Abort(g)
    ELSE [g EXCEPT !.buf =
             @ \o AttributeLines(g, e.config.field_attributes, msg_name, Some(field_name))]

\* CodeGenerator::well_known_type
well_known_type(config, fq_msg_type) ==
    IF ~config.prost_types THEN None
    ELSE IF \E i \in DOMAIN WellKnownTypes : WellKnownTypes[i][1] = fq_msg_type
         THEN Some(WellKnownTypes[CHOOSE i \in DOMAIN WellKnownTypes :
                                      WellKnownTypes[i][1] = fq_msg_type][2])
         ELSE None

\* A slip: no type is ever taken for a known one.
known_type_never(config, fq_msg_type) == None

\* CodeGenerator::known_type; config.mapped_types is a set of <<name, type>>.
known_type(config, fq_msg_type) ==
    LET wk == well_known_type(config, fq_msg_type)
    IN  IF IsSome(wk) THEN wk
        ELSE IF \E m \in config.mapped_types : m[1] = fq_msg_type
             THEN Some((CHOOSE m \in config.mapped_types : m[1] = fq_msg_type)[2])
             ELSE None

\* FieldDescriptorProto::type_name(): the name, or "" when there is none.
TypeNameOf(field) == IF IsSome(field.type_name) THEN field.type_name[1] ELSE <<>>

\* CodeGenerator::resolve_type
ScalarRustType(type) ==
    CASE type = "Float" -> <<"f", "3", "2">>
      [] type = "Double" -> <<"f", "6", "4">>
      [] type \in {"Uint32", "Fixed32"} -> <<"u", "3", "2">>
      [] type \in {"Uint64", "Fixed64"} -> <<"u", "6", "4">>
      [] type \in {"Int32", "Sfixed32", "Sint32", "Enum"} -> <<"i", "3", "2">>
      [] type \in {"Int64", "Sfixed64", "Sint64"} -> <<"i", "6", "4">>
      [] type = "Bool" -> <<"b", "o", "o", "l">>
      [] type = "String" -> <<"S", "t", "r", "i", "n", "g">>
      [] type = "Bytes" -> <<"V", "e", "c", "<", "u", "8", ">">>

resolve_type(g, e, field) ==
    IF field.type \in {"Group", "Message"}
    THEN LET known == known_type(e.config, TypeNameOf(field))
         IN  IF IsSome(known) THEN Ok(known[1])
             ELSE resolve_ident(g.package, TypeNameOf(field))
    ELSE Ok(ScalarRustType(field.type))

ScalarTypeTag(type) ==
    CASE type = "Float" -> "float"
      [] type = "Double" -> "double"
      [] type = "Int32" -> "int32"
      [] type = "Int64" -> "int64"
      [] type = "Uint32" -> "uint32"
      [] type = "Uint64" -> "uint64"
      [] type = "Sint32" -> "sint32"
      [] type = "Sint64" -> "sint64"
      [] type = "Fixed32" -> "fixed32"
      [] type = "Fixed64" -> "fixed64"
      [] type = "Sfixed32" -> "sfixed32"
      [] type = "Sfixed64" -> "sfixed64"
      [] type = "Bool" -> "bool"
      [] type = "String" -> "string"
      [] type = "Bytes" -> "bytes"
      [] type = "Group" -> "group"
      [] type = "Message" -> "message"

\* CodeGenerator::field_type_tag: a part [t, v] of the attribute.
field_type_tag(g, field) ==
    IF field.type = "Enum"
    THEN LET r == resolve_ident(g.package, TypeNameOf(field))
         IN  IF r.panic THEN Panic ELSE Ok([t |-> "enumeration=", v |-> r.val])
    ELSE Ok([t |-> ScalarTypeTag(field.type), v |-> <<>>])

\* CodeGenerator::map_value_type_tag
map_value_type_tag(g, field) ==
    IF field.type = "Enum"
    THEN LET r == resolve_ident(g.package, TypeNameOf(field))
         IN  IF r.panic THEN Panic ELSE Ok([t |-> "enumeration()", v |-> r.val])
    ELSE field_type_tag(g, field)

\* A slip: presence is tracked for message fields in the legacy dialect only.
optional_legacy_only(syntax, field) ==
    field.label = "Optional" /\ syntax = "Proto2"

\* CodeGenerator::optional
optional(syntax, field) ==
    IF field.label # "Optional" THEN FALSE
    ELSE IF field.type = "Message" THEN TRUE
    ELSE syntax = "Proto2"

PackableTypes ==
    {"Float", "Double", "Int32", "Int64", "Uint32", "Uint64", "Sint32", "Sint64",
     "Fixed32", "Fixed64", "Sfixed32", "Sfixed64", "Bool", "Enum"}

can_pack(field) == field.type \in PackableTypes

\* FieldOptions::packed(): the option, false when it is not set.
OptionsPacked(options) == IF IsSome(options.packed) THEN options.packed[1] ELSE FALSE

\* A slip: the override is written for the packed fields.
PackedOverrideInverted(syntax, field) ==
    /\ can_pack(field)
    /\ IF IsSome(field.options) THEN OptionsPacked(field.options[1]) ELSE syntax = "Proto3"

\* append_field, Label::Repeated: whether packed="false" is written.
PackedOverride(syntax, field) ==
    /\ can_pack(field)
    /\ ~(IF IsSome(field.options) THEN OptionsPacked(field.options[1]) ELSE syntax = "Proto3")

\* MessageGraph::is_nested: the graph is the relation it answers by.
is_nested(graph, msg, potential_parent) == <<msg, potential_parent>> \in graph

\* A slip: a repeated field is boxed like any other.
BoxedFieldRepeatedToo(graph, field, msg_name) ==
    /\ field.type = "Message"
    /\ is_nested(graph, TypeNameOf(field), msg_name)

\* append_field: let boxed = !repeated && type_ == Type::Message && is_nested(..)
BoxedField(graph, field, msg_name) ==
    /\ field.label # "Repeated"
    /\ field.type = "Message"
    /\ is_nested(graph, TypeNameOf(field), msg_name)

\* append_oneof: let boxed = type_ == Type::Message && is_nested(..)
BoxedVariant(graph, field, msg_name) ==
    /\ field.type = "Message"
    /\ is_nested(graph, TypeNameOf(field), msg_name)

(***************************************************************************)
(* The literal decoder.  The bytes of a string are the codes of its        *)
(* characters; the strings protoc writes hold printable ASCII only.        *)
(***************************************************************************)
\* The characters of the codes 32 to 126, in order (the grave accent, code 96,
\* cannot be written in a string of this language and is written by its code
\* point).
Printable ==
    <<
      " ", "!", "\"", "#", "$", "%", "&", "'", "(", ")", "*", "+",
      ",", "-", ".", "/", "0", "1", "2", "3", "4", "5", "6", "7",
      "8", "9", ":", ";", "<", "=", ">", "?", "@", "A", "B", "C",
      "D", "E", "F", "G", "H", "I", "J", "K", "L", "M", "N", "O",
      "P", "Q", "R", "S", "T", "U", "V", "W", "X", "Y", "Z", "[",
      "\\", "]", "^", "_", "U+0060", "a", "b", "c", "d", "e", "f", "g",
      "h", "i", "j", "k", "l", "m", "n", "o", "p", "q", "r", "s",
      "t", "u", "v", "w", "x", "y", "z", "{", "|", "}", "~"
    >>

Ord(c) == 31 + (CHOOSE i \in DOMAIN Printable : Printable[i] = c)

Chr(b) == Printable[b - 31]

HexDigits == <<"0", "1", "2", "3", "4", "5", "6", "7", "8", "9", "a", "b", "c", "d", "e", "f">>

IsOctalDigit(c) == c \in {"0", "1", "2", "3", "4", "5", "6", "7"}

HexDigitsUpper == <<"0", "1", "2", "3", "4", "5", "6", "7", "8", "9", "A", "B", "C", "D", "E", "F">>

IsHexDigit(c) == \E i \in DOMAIN HexDigits : HexDigits[i] = c \/ HexDigitsUpper[i] = c

HexValue(c) == (CHOOSE i \in DOMAIN HexDigits : HexDigits[i] = c \/ HexDigitsUpper[i] = c) - 1

\* u8::from_str_radix(two characters, 16): an optional plus sign, then digits.
FromStrRadix16(s) ==
    IF IsHexDigit(s[1]) /\ IsHexDigit(s[2]) THEN Some(16 * HexValue(s[1]) + HexValue(s[2]))
    ELSE IF s[1] = "+" /\ IsHexDigit(s[2]) THEN Some(HexValue(s[2]))
    ELSE None

\* The byte of a one-letter escape, or None.
NamedEscape(c) ==
    CASE c = "a" -> Some(7)
      [] c = "b" -> Some(8)
      [] c = "f" -> Some(12)
      [] c = "n" -> Some(10)
      [] c = "r" -> Some(13)
      [] c = "t" -> Some(9)
      [] c = "v" -> Some(11)
      [] c = "\\" -> Some(92)
      [] c = "?" -> Some(63)
      [] c = "'" -> Some(39)
      [] c = "\"" -> Some(34)
      [] OTHER -> None

\* The octal escape at s[p ..]: up to three digits, as <<value, next p>>; the
\* value is a u8, so a value past 255 panics (value -1) where the build checks
\* overflow and wraps where it does not.
RECURSIVE OctalFrom(_, _, _, _, _)
OctalFrom(s, p, n, octal, overflow_checks) ==
    IF n < 3 /\ p <= Len(s) /\ IsOctalDigit(s[p])
    THEN LET v == octal * 8 + (Ord(s[p]) - 48)
         IN  IF v > 255 /\ overflow_checks THEN <<-1, p>>
             ELSE OctalFrom(s, p + 1, n + 1, v % 256, overflow_checks)
    ELSE <<octal, p>>

\* unescape_c_escape_string from position p (from 1), dst being the bytes so far.
RECURSIVE UnescapeFrom(_, _, _, _)
UnescapeFrom(s, p, dst, overflow_checks) ==
    IF p > Len(s) THEN Ok(dst)
    ELSE IF s[p] # "\\" THEN UnescapeFrom(s, p + 1, Append(dst, Ord(s[p])), overflow_checks)
    ELSE IF p + 1 > Len(s) THEN Panic
    ELSE LET c == s[p + 1]
         IN  IF IsSome(NamedEscape(c))
             THEN UnescapeFrom(s, p + 2, Append(dst, NamedEscape(c)[1]), overflow_checks)
             ELSE IF IsOctalDigit(c)
             THEN LET oct == OctalFrom(s, p + 1, 0, 0, overflow_checks)
                  IN  IF oct[1] < 0 THEN Panic
                      ELSE UnescapeFrom(s, oct[2], Append(dst, oct[1]), overflow_checks)
             ELSE IF c \in {"x", "X"}
             THEN IF p + 3 > Len(s) THEN Panic
                  ELSE LET b == FromStrRadix16(SubSeq(s, p + 2, p + 3))
                       IN  IF IsSome(b)
                           THEN UnescapeFrom(s, p + 4, Append(dst, b[1]), overflow_checks)
                           ELSE Panic
             ELSE Panic

unescape_c_escape_string(s, overflow_checks) == UnescapeFrom(s, 1, <<>>, overflow_checks)

\* A slip: the backslash and the quotes are written as they are.
AsciiEscapeDefaultUnquoted(b) ==
    IF b >= 32 /\ b <= 126 THEN <<Chr(b)>>
    ELSE <<"\\", "x", HexDigits[(b \div 16) + 1], HexDigits[(b % 16) + 1]>>

\* std::ascii::escape_default: the characters that write one byte.
AsciiEscapeDefault(b) ==
    CASE b = 9 -> <<"\\", "t">>
      [] b = 13 -> <<"\\", "r">>
      [] b = 10 -> <<"\\", "n">>
      [] b = 39 -> <<"\\", "'">>
      [] b = 34 -> <<"\\", "\"">>
      [] b = 92 -> <<"\\", "\\">>
      [] b >= 32 /\ b <= 126 /\ b \notin {39, 34, 92} -> <<Chr(b)>>
      [] OTHER -> <<"\\", "x", HexDigits[(b \div 16) + 1], HexDigits[(b % 16) + 1]>>

\* char::escape_default, of a printable ASCII character.
CharEscapeDefault(c) ==
    IF c \in {"\\", "'", "\""} THEN <<"\\", c>> ELSE <<c>>

\* ascii::escape_default(b), byte after byte.
RECURSIVE AsciiEscapeAll(_)
AsciiEscapeAll(bytes) ==
    IF bytes = <<>> THEN <<>>
    ELSE AsciiEscapeDefault(Head(bytes)) \o AsciiEscapeAll(Tail(bytes))

\* .flat_map(|c| (c as char).escape_default())
RECURSIVE CharEscapeAll(_)
CharEscapeAll(s) ==
    IF s = <<>> THEN <<>>
    ELSE CharEscapeDefault(Head(s)) \o CharEscapeAll(Tail(s))

\* ascii::escape_default(b).flat_map(|c| (c as char).escape_default())
EscapeByte(b) == CharEscapeAll(AsciiEscapeDefault(b))

\* for b in unescape_c_escape_string(default) { self.buf.extend(..) }
RECURSIVE EscapeBytes(_)
EscapeBytes(bytes) ==
    IF bytes = <<>> THEN <<>>
    ELSE EscapeByte(Head(bytes)) \o EscapeBytes(Tail(bytes))

(***************************************************************************)
(* Field and type lowering.  A part of a #[prost(..)] attribute is a       *)
(* record [t, v]: the keyword written and the value written after it.      *)
(***************************************************************************)
Part(t, v) == [t |-> t, v |-> v]

Last(s) == s[Len(s)]

\* append_field: the text of the default, as the parts it adds.
DefaultParts(g, e, field) ==
    IF ~IsSome(field.default_value) THEN Ok(<<>>)
    ELSE LET default == field.default_value[1]
         IN  IF field.type = "Bytes"
             THEN LET bytes == unescape_c_escape_string(default, g.build.overflow_checks)
                  IN  IF bytes.panic THEN Panic
                      ELSE Ok(<<Part("default=",
                                     <<"b", "\\", "\"">> \o EscapeBytes(bytes.val) \o <<"\\", "\"">>)>>)
             ELSE IF field.type = "Enum"
             THEN LET enum_value == to_upper_camel(default)
                  IN  IF e.config.strip_enum_prefix
                      THEN IF ~IsSome(field.type_name) THEN Panic
                           ELSE LET enum_type == Last(Split(field.type_name[1], "."))
                                IN  Ok(<<Part("default=",
                                              to_upper_camel(
                                                  strip_enum_prefix(enum_type, enum_value)))>>)
                      ELSE Ok(<<Part("default=", to_upper_camel(default))>>)
             ELSE Ok(<<Part("default=", default)>>)

\* append_field: what the match on field.label() writes.
LabelParts(syntax, field) ==
    CASE field.label = "Optional" ->
             IF optional(syntax, field) THEN <<Part("optional", <<>>)>> ELSE <<>>
      [] field.label = "Required" -> <<Part("required", <<>>)>>
      [] field.label = "Repeated" ->
             <<Part("repeated", <<>>)>>
                 \o (IF PackedOverride(syntax, field)
                     THEN <<Part("packed=", <<"f", "a", "l", "s", "e">>)>>
                     ELSE <<>>)

\* The container written around the type of a field.
Wrapper(syntax, field) ==
    IF field.label = "Repeated" THEN "Vec"
    ELSE IF optional(syntax, field) THEN "Option"
    ELSE "none"

append_field(g, e, msg_name, field) ==
    IF g.aborted THEN g
    ELSE IF field.type = "Group" THEN g
    ELSE LET ty       == resolve_type(g, e, field)
             boxed    == BoxedField(e.graph, field, msg_name)
             type_tag == field_type_tag(g, field)
             default  == DefaultParts(g, e, field)
             g1       == append_doc(AbortIf(g, ty.panic))
             g2       == Emit(AbortIf(g1, type_tag.panic \/ default.panic),
                              [k |-> "prost", depth |-> g.depth, at |-> g.path,
                               parts |-> <<type_tag.val>>
                                   \o LabelParts(g.syntax, field)
                                   \o (IF boxed THEN <<Part("boxed", <<>>)>> ELSE <<>>)
                                   \o <<Part("tag=", field.number)>>
                                   \o default.val])
             g3       == append_field_attributes(g2, e, msg_name, field.name)
         IN  Emit(g3, [k |-> "field", depth |-> g.depth, at |-> g.path,
                       name |-> to_snake(field.name),
                       wrapper |-> Wrapper(g.syntax, field),
                       boxed |-> boxed, ty |-> ty.val])

append_map_field(g, e, msg_name, field, key, value) ==
    IF g.aborted THEN g
    ELSE LET key_ty    == resolve_type(g, e, key)
             value_ty  == resolve_type(g, e, value)
             btree_map == \E matcher \in e.config.btree_map :
                              match_ident(matcher, msg_name, Some(field.name))
             key_tag   == field_type_tag(g, key)
             value_tag == map_value_type_tag(g, value)
             g1        == append_doc(AbortIf(g, key_ty.panic \/ value_ty.panic))
             g2        == Emit(AbortIf(g1, key_tag.panic \/ value_tag.panic),
                               [k |-> "prost_map", depth |-> g.depth, at |-> g.path,
                                annotation |-> IF btree_map THEN "btree_map" ELSE "map",
                                key |-> key_tag.val, value |-> value_tag.val,
                                tag |-> field.number])
             g3        == append_field_attributes(g2, e, msg_name, field.name)
         IN  Emit(g3, [k |-> "map_field", depth |-> g.depth, at |-> g.path,
                       name |-> to_snake(field.name),
                       container |-> IF btree_map THEN "BTreeMap" ELSE "HashMap",
                       key_ty |-> key_ty.val, value_ty |-> value_ty.val])

\* A variant: the tags are put in rising order before they are joined.
MemberTagsSorted(fields) ==
    SortSeq([i \in DOMAIN fields |-> fields[i][1].number], LAMBDA a, b : a < b)

\* fields.iter().map(|&(ref field, _)| field.number()).join(", ")
MemberTags(fields) == [i \in DOMAIN fields |-> fields[i][1].number]

\* fields is the vector of <<field, index>> of the oneof's members.
append_oneof_field(g, e, message_name, fq_message_name, oneof, fields) ==
    IF g.aborted THEN g
    ELSE LET name == to_snake(message_name) \o sColons \o to_upper_camel(oneof.name)
             g1   == append_doc(g)
             g2   == Emit(g1, [k |-> "prost_oneof", depth |-> g.depth, at |-> g.path,
                               oneof |-> name,
                               tags |-> MemberTags(fields)])
             g3   == append_field_attributes(g2, e, fq_message_name, oneof.name)
         IN  Emit(g3, [k |-> "oneof_field", depth |-> g.depth, at |-> g.path,
                       name |-> to_snake(oneof.name), ty |-> name])

\* append_oneof: the body of the loop over the members, for one member.
append_oneof_variant(g, e, msg_name, oneof_name, field, idx) ==
    IF g.aborted THEN g
    ELSE IF field.type = "Group" THEN g
    ELSE LET ty_tag == field_type_tag(g, field)
             ty     == resolve_type(g, e, field)
             boxed  == BoxedVariant(e.graph, field, msg_name)
             g1     == PopPath(append_doc(PushPath(g, idx)))
             g2     == Emit(AbortIf(g1, ty_tag.panic),
                            [k |-> "prost", depth |-> g.depth, at |-> Append(g.path, idx),
                             parts |-> <<ty_tag.val, Part("tag=", field.number)>>])
             g3     == append_field_attributes(g2, e, oneof_name, field.name)
         IN  Emit(AbortIf(g3, ty.panic),
                  [k |-> "variant", depth |-> g.depth, at |-> Append(g.path, idx),
                   name |-> to_upper_camel(field.name),
                   boxed |-> boxed, ty |-> ty.val])

RECURSIVE OneofVariants(_, _, _, _, _, _)
OneofVariants(g, e, msg_name, oneof_name, fields, i) ==
    IF i > Len(fields) \/ g.aborted THEN g
    ELSE OneofVariants(
             append_oneof_variant(g, e, msg_name, oneof_name, fields[i][1], fields[i][2]),
             e, msg_name, oneof_name, fields, i + 1)

append_oneof(g, e, msg_name, oneof, idx, fields) ==
    IF g.aborted THEN g
    ELSE LET oneof_name == msg_name \o sDot \o oneof.name
             g1 == PopPath(PopPath(append_doc(PushPath(PushPath(g, 8), idx))))
             g2 == Emit(g1, [k |-> "derive", depth |-> g.depth, what |-> "Oneof"])
             g3 == append_type_attributes(g2, e, oneof_name)
             g4 == Emit(g3, [k |-> "enum", depth |-> g.depth, at |-> Append(Append(g.path, 8), idx),
                             name |-> to_upper_camel(oneof.name)])
             g5 == Indent(PushPath(g4, 2))
             g6 == OneofVariants(g5, e, msg_name, oneof_name, fields, 1)
             g7 == PopPath(Dedent(g6))
         IN  Returned("append_oneof", oneof_name, g,
                      Emit(g7, [k |-> "close", depth |-> g.depth]))

(***************************************************************************)
(* Enum lowering                                                           *)
(***************************************************************************)
append_enum_value(g, e, fq_enum_name, value, prefix_to_strip) ==
    IF g.aborted THEN g
    ELSE LET g1   == append_doc(g)
             g2   == append_field_attributes(g1, e, fq_enum_name, value.name)
             name == to_upper_camel(value.name)
             name_unprefixed == IF IsSome(prefix_to_strip)
                                THEN strip_enum_prefix(prefix_to_strip[1], name)
                                ELSE name
         IN  Emit(g2, [k |-> "value", depth |-> g.depth, at |-> g.path,
                       name |-> name_unprefixed, number |-> value.number])

\* A slip: an alias is written like any other value.
FirstOfItsNumberAlways(numbers, value) == TRUE

\* numbers.insert(value.number()): true when the number was not there.
FirstOfItsNumber(numbers, value) == value.number \notin numbers

\* append_enum: the loop over the values, numbers being the set of those seen.
RECURSIVE EnumValues(_, _, _, _, _, _)
EnumValues(g, e, desc, fq_enum_name, numbers, i) ==
    IF i > Len(desc.value) \/ g.aborted THEN g
    ELSE IF ~FirstOfItsNumber(numbers, desc.value[i])
    THEN EnumValues(g, e, desc, fq_enum_name, numbers, i + 1)
    ELSE EnumValues(PopPath(append_enum_value(
                                PushPath(g, i - 1), e, fq_enum_name, desc.value[i],
                                IF e.config.strip_enum_prefix
                                THEN Some(to_upper_camel(desc.name))
                                ELSE None)),
                    e, desc, fq_enum_name, numbers \cup {desc.value[i].number}, i + 1)

append_enum(g, e, desc) ==
    IF g.aborted THEN g
    ELSE LET fq_enum_name == sDot \o g.package \o sDot \o desc.name
             g1 == append_doc(g)
             g2 == Emit(g1, [k |-> "derive", depth |-> g.depth, what |-> "Enumeration"])
             g3 == append_type_attributes(g2, e, fq_enum_name)
             g4 == Emit(g3, [k |-> "enum", depth |-> g.depth, at |-> g.path,
                             name |-> to_upper_camel(desc.name)])
             g5 == PushPath(Indent(g4), 2)
             g6 == EnumValues(g5, e, desc, fq_enum_name, {}, 1)
             g7 == Dedent(PopPath(g6))
         IN  IF IsSome(known_type(e.config, fq_enum_name))
             THEN Returned("append_enum", fq_enum_name, g, g)
             ELSE Returned("append_enum", fq_enum_name, g,
                           Emit(g7, [k |-> "close", depth |-> g.depth]))

(***************************************************************************)
(* Module scopes                                                           *)
(***************************************************************************)
push_mod(g, module) ==
    IF g.aborted THEN g
    ELSE DepthStep([Emit(g, [k |-> "mod", depth |-> g.depth, name |-> to_snake(module)])
                       EXCEPT !.package = @ \o sDot \o module],
                   1)

\* pop_mod after self.depth -= 1: the scope loses its last segment and the
\* closing line is written at the new depth.
CloseScope(g) ==
    IF g.aborted THEN g
    ELSE IF RFind(g.package, ".") = 0 THEN Abort(g)
    ELSE Emit([g EXCEPT !.package = SubSeq(@, 1, RFind(g.package, ".") - 1)],
              [k |-> "close", depth |-> g.depth])

pop_mod(g) == CloseScope(Dedent(g))

(***************************************************************************)
(* Message lowering                                                        *)
(***************************************************************************)
\* A slip: no nested type is taken for a map entry.
IsMapEntryNever(nested_type) == FALSE

\* nested_type.options.as_ref().and_then(|options| options.map_entry).unwrap_or(false)
IsMapEntry(nested_type) ==
    /\ IsSome(nested_type.options)
    /\ IsSome(nested_type.options[1].map_entry)
    /\ nested_type.options[1].map_entry[1]

\* v.into_iter().enumerate(): each element with its index from 0.
Enumerate(v) == [i \in DOMAIN v |-> <<v[i], i - 1>>]

\* The indexing and the assertions of the partition's closure fail.
MalformedMapEntry(nested_type) ==
    \/ Len(nested_type.field) < 2
    \/ nested_type.field[1].name # <<"k", "e", "y">>
    \/ nested_type.field[2].name # <<"v", "a", "l", "u", "e">>

\* The left side of the partition: the nested types that are no map entries.
NestedTypes(message) ==
    SelectSeq(Enumerate(message.nested_type), LAMBDA p : ~IsMapEntry(p[1]))

\* The right side: <<name, key, value>> of each map entry, in order; a later
\* entry of the same name replaces an earlier one in the HashMap.
MapTypes(message, fq_message_name) ==
    LET entries == SelectSeq(message.nested_type, IsMapEntry)
    IN  [i \in DOMAIN entries |->
            <<fq_message_name \o sDot \o entries[i].name,
              entries[i].field[1], entries[i].field[2]>>]

\* field.type_name.as_ref().and_then(|type_name| map_types.get(type_name))
MapTypeOf(map_types, field) ==
    IF /\ IsSome(field.type_name)
       /\ \E i \in DOMAIN map_types : map_types[i][1] = field.type_name[1]
    THEN LET i == CHOOSE i \in DOMAIN map_types :
                      /\ map_types[i][1] = field.type_name[1]
                      /\ \A j \in DOMAIN map_types :
                             map_types[j][1] = field.type_name[1] => j <= i
         IN  Some(<<map_types[i][2], map_types[i][3]>>)
    ELSE None

\* The fields outside every oneof, and the members of the oneof idx.
PlainFields(message) ==
    SelectSeq(Enumerate(message.field), LAMBDA p : ~IsSome(p[1].oneof_index))

OneofMembers(message, idx) ==
    SelectSeq(Enumerate(message.field), LAMBDA p : p[1].oneof_index = Some(idx))

\* The keys of the MultiMap oneof_fields.
OneofKeys(message) ==
    {message.field[i].oneof_index[1] :
        i \in {j \in DOMAIN message.field : IsSome(message.field[j].oneof_index)}}

\* A slip: the number of oneofs is not compared.
OneofCountMismatchIgnored(message) == FALSE

\* assert_eq!(oneof_fields.len(), message.oneof_decl.len()), failing.
OneofCountMismatch(message) == Cardinality(OneofKeys(message)) # Len(message.oneof_decl)

\* The body of the loop over the fields, for one field and its index.
MessageField(g, e, fq_message_name, field, idx, entry) ==
    PopPath(IF IsSome(entry)
            THEN append_map_field(PushPath(g, idx), e, fq_message_name, field,
                                  entry[1][1], entry[1][2])
            ELSE append_field(PushPath(g, idx), e, fq_message_name, field))

RECURSIVE FieldsLoop(_, _, _, _, _, _)
FieldsLoop(g, e, fq_message_name, fields, map_types, i) ==
    IF i > Len(fields) \/ g.aborted THEN g
    ELSE FieldsLoop(MessageField(g, e, fq_message_name, fields[i][1], fields[i][2],
                                 MapTypeOf(map_types, fields[i][1])),
                    e, fq_message_name, fields, map_types, i + 1)

RECURSIVE OneofFieldsLoop(_, _, _, _, _)
OneofFieldsLoop(g, e, message, fq_message_name, i) ==
    IF i > Len(message.oneof_decl) \/ g.aborted THEN g
    ELSE IF (i - 1) \notin OneofKeys(message) THEN Abort(g)
    ELSE OneofFieldsLoop(
             PopPath(append_oneof_field(PushPath(g, i - 1), e, message.name,
                                        fq_message_name, message.oneof_decl[i],
                                        OneofMembers(message, i - 1))),
             e, message, fq_message_name, i + 1)

RECURSIVE OneofsLoop(_, _, _, _, _)
OneofsLoop(g, e, message, fq_message_name, i) ==
    IF i > Len(message.oneof_decl) \/ g.aborted THEN g
    ELSE IF (i - 1) \notin OneofKeys(message) THEN Abort(g)
    ELSE OneofsLoop(
             append_oneof(g, e, fq_message_name, message.oneof_decl[i], i - 1,
                          OneofMembers(message, i - 1)),
             e, message, fq_message_name, i + 1)

RECURSIVE EnumsLoop(_, _, _, _)
EnumsLoop(g, e, enums, i) ==
    IF i > Len(enums) \/ g.aborted THEN g
    ELSE EnumsLoop(PopPath(append_enum(PushPath(g, i - 1), e, enums[i])), e, enums, i + 1)

RECURSIVE append_message(_, _, _)
RECURSIVE NestedLoop(_, _, _, _)
NestedLoop(g, e, nested_types, i) ==
    IF i > Len(nested_types) \/ g.aborted THEN g
    ELSE NestedLoop(
             PopPath(append_message(PushPath(g, nested_types[i][2]), e, nested_types[i][1])),
             e, nested_types, i + 1)

\* append_message from push_mod to pop_mod: the nested declarations.
NestedDeclarations(g, e, message, fq_message_name) ==
    IF \/ message.enum_type # <<>>
       \/ NestedTypes(message) # <<>>
       \/ OneofKeys(message) # {}
    THEN LET g1 == PushPath(push_mod(g, message.name), 3)
             g2 == PushPath(PopPath(NestedLoop(g1, e, NestedTypes(message), 1)), 4)
             g3 == PopPath(EnumsLoop(g2, e, message.enum_type, 1))
             g4 == OneofsLoop(g3, e, message, fq_message_name, 1)
         IN  pop_mod(g4)
    ELSE g

append_message(g, e, message) ==
    IF g.aborted THEN g
    ELSE LET fq_message_name == sDot \o g.package \o sDot \o message.name
             g1 == append_doc(g)
             g2 == Emit(g1, [k |-> "derive", depth |-> g.depth, what |-> "Message"])
             g3 == append_type_attributes(g2, e, fq_message_name)
             g4 == Emit(g3, [k |-> "struct", depth |-> g.depth, at |-> g.path,
                             name |-> to_upper_camel(message.name)])
             g5 == PushPath(Indent(g4), 2)
             g6 == PushPath(PopPath(FieldsLoop(g5, e, fq_message_name, PlainFields(message),
                                               MapTypes(message, fq_message_name), 1)), 8)
             g7 == PopPath(OneofFieldsLoop(g6, e, message, fq_message_name, 1))
             g8 == Emit(Dedent(g7), [k |-> "close", depth |-> g.depth])
         IN  IF IsSome(known_type(e.config, fq_message_name))
             THEN Returned("append_message", fq_message_name, g, g)
             ELSE IF \E i \in DOMAIN message.nested_type :
                         /\ IsMapEntry(message.nested_type[i])
                         /\ MalformedMapEntry(message.nested_type[i])
             THEN Abort(g)
             ELSE IF OneofCountMismatch(message)
             THEN Abort(g)
             ELSE Returned("append_message", fq_message_name, g,
                           NestedDeclarations(g8, e, message, fq_message_name))

(***************************************************************************)
(* Services                                                                *)
(***************************************************************************)
\* push_service: the closure of the map over the methods, for the method of
\* index idx: the Method built, or a panic.
ServiceMethod(g, e, method, idx) ==
    LET at == location(PushPath(g, idx))
    IN  IF at = 0 THEN Panic
        ELSE IF ~IsSome(method.name) \/ ~IsSome(method.input_type)
                  \/ ~IsSome(method.output_type)
        THEN Panic
        ELSE LET known_in  == known_type(e.config, method.input_type[1])
                 known_out == known_type(e.config, method.output_type[1])
                 input     == IF IsSome(known_in) THEN Ok(known_in[1])
                              ELSE resolve_ident(g.package, method.input_type[1])
                 output    == IF IsSome(known_out) THEN Ok(known_out[1])
                              ELSE resolve_ident(g.package, method.output_type[1])
             IN  IF input.panic \/ output.panic THEN Panic
                 ELSE Ok([name |-> to_snake(method.name[1]),
                          proto_name |-> method.name[1],
                          comments |-> g.source_info[at].comment,
                          input_type |-> input.val,
                          output_type |-> output.val,
                          input_proto_type |-> method.input_type[1],
                          output_proto_type |-> method.output_type[1],
                          client_streaming |-> method.client_streaming,
                          server_streaming |-> method.server_streaming])

\* A slip: the service is built and never handed to the generator.
ServiceGeneratorGenerateNever(g, config, service) == g

\* self.config.service_generator.as_mut().map(|generator| generator.generate(service, buf))
ServiceGeneratorGenerate(g, config, service) ==
    IF g.aborted \/ ~config.service_generator THEN g
    ELSE [g EXCEPT !.services = Append(@, [fn |-> "generate", service |-> service])]

\* code_gen.config.service_generator.as_mut().map(|generator| generator.finalize(buf))
ServiceGeneratorFinalize(g, config) ==
    IF g.aborted \/ ~config.service_generator THEN g
    ELSE [g EXCEPT !.services = Append(@, [fn |-> "finalize"])]

\* push_service: the methods built for the service, each a Method or a panic.
ServiceMethods(g, e, service) ==
    [i \in DOMAIN service.method |->
        ServiceMethod(PushPath(g, 2), e, service.method[i], i - 1)]

push_service(g, e, service) ==
    IF g.aborted THEN g
    ELSE IF location(g) = 0 THEN Abort(g)
    ELSE IF \E i \in DOMAIN service.method : ServiceMethods(g, e, service)[i].panic
    THEN Abort(PushPath(g, 2))
    ELSE Returned("push_service", service.name, g,
                  ServiceGeneratorGenerate(
                      PopPath(PushPath(g, 2)), e.config,
                      [name       |-> to_upper_camel(service.name),
                       proto_name |-> service.name,
                       package    |-> g.package,
                       comments   |-> g.source_info[location(g)].comment,
                       methods    |-> [i \in DOMAIN service.method |->
                                          ServiceMethods(g, e, service)[i].val]]))
(***************************************************************************)
(* CodeGenerator::generate, one action per step: the construction of the   *)
(* generator, each turn of its three loops, and what follows each loop.    *)
(* args holds the call's arguments (args.file, args.config, args.graph),   *)
(* whether the log level lets debug! through (args.log_debug) and the      *)
(* build (args.build); gen_idx is the index of the loop's turn.            *)
(***************************************************************************)
Env == [config |-> args.config, graph |-> args.graph]

\* let syntax = match file.syntax ..: None for the panic on an unknown syntax.
SyntaxOf(file) ==
    IF file.syntax = None \/ file.syntax = Some(<<"p", "r", "o", "t", "o", "2">>) THEN Some("Proto2")
    ELSE IF file.syntax = Some(<<"p", "r", "o", "t", "o", "3">>) THEN Some("Proto3")
    ELSE None

\* A slip: the services are walked whether or not a generator is configured.
HasServiceGeneratorAlways(config) == TRUE

\* code_gen.config.service_generator.is_some()
HasServiceGenerator(config) == config.service_generator

\* The state a step leaves the pass in.
After(g, next) == IF g.aborted THEN "aborted" ELSE next

Construct ==
    /\ pc = "start"
    /\ IF \/ ~IsSome(args.file.source_code_info)
          \/ ~IsSome(SyntaxOf(args.file))
          \/ ~IsSome(args.file.package)
          \/ args.log_debug /\ ~IsSome(args.file.name)
       THEN /\ pc' = "aborted"
            /\ UNCHANGED cg
       ELSE /\ cg' = [package     |-> args.file.package[1],
                      source_info |-> SortByPath(RetainLocations(
                                          args.file.source_code_info[1])),
                      syntax      |-> SyntaxOf(args.file)[1],
                      depth       |-> 0,
                      path        |-> <<4>>,
                      buf         |-> <<>>,
                      services    |-> <<>>,
                      aborted     |-> FALSE,
                      calls       |-> <<>>,
                      build       |-> args.build]
            /\ pc' = "messages"
    /\ UNCHANGED <<args, gen_idx, ret>>

VisitMessage ==
    /\ pc = "messages"
    /\ gen_idx < Len(args.file.message_type)
    /\ cg' = PopPath(append_message(PushPath(cg, gen_idx), Env, args.file.message_type[gen_idx + 1]))
    /\ gen_idx' = gen_idx + 1
    /\ pc' = After(cg', "messages")
    /\ UNCHANGED <<args, ret>>

EndMessages ==
    /\ pc = "messages"
    /\ gen_idx = Len(args.file.message_type)
    /\ cg' = PushPath(PopPath(cg), 5)
    /\ gen_idx' = 0
    /\ pc' = "enums"
    /\ UNCHANGED <<args, ret>>

VisitEnum ==
    /\ pc = "enums"
    /\ gen_idx < Len(args.file.enum_type)
    /\ cg' = PopPath(append_enum(PushPath(cg, gen_idx), Env, args.file.enum_type[gen_idx + 1]))
    /\ gen_idx' = gen_idx + 1
    /\ pc' = After(cg', "enums")
    /\ UNCHANGED <<args, ret>>

EndEnums ==
    /\ pc = "enums"
    /\ gen_idx = Len(args.file.enum_type)
    /\ gen_idx' = 0
    /\ IF HasServiceGenerator(args.config)
       THEN /\ cg' = PushPath(PopPath(cg), 6)
            /\ pc' = "services"
       ELSE /\ cg' = PopPath(cg)
            /\ pc' = "done"
    /\ UNCHANGED <<args, ret>>

VisitService ==
    /\ pc = "services"
    /\ gen_idx < Len(args.file.service)
    /\ cg' = PopPath(push_service(PushPath(cg, gen_idx), Env, args.file.service[gen_idx + 1]))
    /\ gen_idx' = gen_idx + 1
    /\ pc' = After(cg', "services")
    /\ UNCHANGED <<args, ret>>

\* service_generator.finalize(buf), when there is a generator.
Finalize ==
    /\ pc = "services"
    /\ gen_idx = Len(args.file.service)
    /\ cg' = PopPath(ServiceGeneratorFinalize(cg, args.config))
    /\ pc' = "done"
    /\ UNCHANGED <<args, gen_idx, ret>>

Next ==
    \/ Construct
    \/ VisitMessage
    \/ EndMessages
    \/ VisitEnum
    \/ EndEnums
    \/ VisitService
    \/ Finalize

(***************************************************************************)
(* Inputs of strip_enum_prefix and resolve_ident                            *)
(***************************************************************************)
sFoo == <<"F", "o", "o">>

sFooBar == <<"F", "o", "o", "B", "a", "r">>

sFoobar == <<"F", "o", "o", "b", "a", "r">>

sFoo1 == <<"F", "o", "o", "1">>

sBar == <<"B", "a", "r">>

sPkg == <<"p", "k", "g">>

sA == <<"a">>

sB == <<"b">>

sC == <<"c">>

sOuter == <<"O", "u", "t", "e", "r">>

sInner == <<"I", "n", "n", "e", "r">>

sTarget == <<"T", "a", "r", "g", "e", "t">>

sMyType == <<"m", "y", "_", "t", "y", "p", "e">>

\* The longest prefix and name tried, beside the examples of the tests.
MaxStripLen == 3

\* An ASCII capital, a small letter, a digit and a capital outside ASCII.
StripAlphabet == {"A", "b", "1", "U+00C4"}

StripPrefixes == SeqsUpTo(StripAlphabet, MaxStripLen) \cup {sFoo}

StripNames ==
    SeqsUpTo(StripAlphabet, MaxStripLen + 1) \cup {sFooBar, sFoobar, sFoo, sBar, sFoo1}

\* The deepest module scope tried.
MaxScope == 3

ScopeNames == {sPkg, sA, sB, sC}

Scopes == SeqsUpTo(ScopeNames, MaxScope) \cup {<<sPkg, sOuter>>, <<sPkg, sOuter, sInner>>}

TypeNames == {sTarget, sMyType}

\* The package strings: the scopes joined by dots (the empty scope is "").
Packages == {Join(sc, sDot) : sc \in Scopes}

\* Fully-qualified identifiers as protoc writes them, and two that are not.
PbIdents ==
    {sDot \o Join(Append(sc, t), sDot) : sc \in Scopes, t \in TypeNames}
        \cup {<<>>, sTarget}

(***************************************************************************)
(* Descriptors.  A FieldDescriptorProto, DescriptorProto and so on is a    *)
(* record of the fields the generator reads.                               *)
(***************************************************************************)
Field(name, number, label, type, type_name, oneof_index) ==
    [name |-> name, number |-> number, label |-> label, type |-> type,
     type_name |-> type_name, default_value |-> None, oneof_index |-> oneof_index,
     options |-> None]

Message(name, field, oneof_decl, nested_type, enum_type) ==
    [name |-> name, field |-> field, oneof_decl |-> oneof_decl,
     nested_type |-> nested_type, enum_type |-> enum_type, options |-> None]

\* The synthetic nested type protoc writes for a map field.
MapEntry(name, key, value) ==
    [name |-> name, field |-> <<key, value>>, oneof_decl |-> <<>>,
     nested_type |-> <<>>, enum_type |-> <<>>,
     options |-> Some([map_entry |-> Some(TRUE)])]

Enum(name, value) == [name |-> name, value |-> value]

EnumValue(name, number) == [name |-> name, number |-> number]

Method(name, input_type, output_type) ==
    [name |-> Some(name), input_type |-> Some(input_type),
     output_type |-> Some(output_type),
     client_streaming |-> FALSE, server_streaming |-> FALSE]

Service(name, method) == [name |-> name, method |-> method]

\* The locations protoc records for a declaration at path p, in the order of
\* the declaration's parts; each location's comment is named by its path.
Loc(p) == [path |-> p, comment |-> p]

RECURSIVE Concat(_)
Concat(seqs) == IF seqs = <<>> THEN <<>> ELSE Head(seqs) \o Concat(Tail(seqs))

EnumLocations(desc, p) ==
    <<Loc(p), Loc(Append(p, 1))>>
        \o [i \in DOMAIN desc.value |-> Loc(p \o <<2, i - 1>>)]

RECURSIVE MessageLocations(_, _)
MessageLocations(message, p) ==
    <<Loc(p), Loc(Append(p, 1))>>
        \o [i \in DOMAIN message.field |-> Loc(p \o <<2, i - 1>>)]
        \o [i \in DOMAIN message.oneof_decl |-> Loc(p \o <<8, i - 1>>)]
        \o Concat([i \in DOMAIN message.nested_type |->
                      IF IsSome(message.nested_type[i].options) THEN <<>>
                      ELSE MessageLocations(message.nested_type[i], p \o <<3, i - 1>>)])
        \o Concat([i \in DOMAIN message.enum_type |->
                      EnumLocations(message.enum_type[i], p \o <<4, i - 1>>)])

ServiceLocations(service, p) ==
    <<Loc(p), Loc(Append(p, 1))>>
        \o [i \in DOMAIN service.method |-> Loc(p \o <<2, i - 1>>)]

\* SourceCodeInfo.location of a file with these declarations.
FileLocations(messages, enums, services) ==
    <<Loc(<<>>), Loc(<<2>>)>>
        \o Concat([i \in DOMAIN services |-> ServiceLocations(services[i], <<6, i - 1>>)])
        \o Concat([i \in DOMAIN enums |-> EnumLocations(enums[i], <<5, i - 1>>)])
        \o Concat([i \in DOMAIN messages |-> MessageLocations(messages[i], <<4, i - 1>>)])

File(name, package, syntax, messages, enums, services, source_code_info) ==
    [name |-> name, package |-> package, syntax |-> syntax, message_type |-> messages,
     enum_type |-> enums, service |-> services, source_code_info |-> source_code_info]

(***************************************************************************)
(* The declarations the walk is tried on                                   *)
(***************************************************************************)
sProto3 == <<"p", "r", "o", "t", "o", "3">>

Fq(segments) == sDot \o Join(segments, sDot)

\* message Plain { int32 a = 1; repeated int32 nums = 2; }
mPlain ==
    Message(<<"P", "l", "a", "i", "n">>,
            <<Field(<<"a">>, 1, "Optional", "Int32", None, None),
              Field(<<"n", "u", "m", "s">>, 2, "Repeated", "Int32", None, None)>>,
            <<>>, <<>>, <<>>)

eColor ==
    Enum(<<"C", "o", "l", "o", "r">>,
         <<EnumValue(<<"C", "O", "L", "O", "R", "_", "R", "E", "D">>, 0), EnumValue(<<"C", "O", "L", "O", "R", "_", "C", "R", "I", "M", "S", "O", "N">>, 0),
           EnumValue(<<"C", "O", "L", "O", "R", "_", "B", "L", "U", "E">>, 1)>>)

\* message Deep { oneof pick { string s = 1; } enum Color { .. } }
mDeep ==
    Message(<<"D", "e", "e", "p">>,
            <<Field(<<"s">>, 1, "Optional", "String", None, Some(0))>>,
            <<[name |-> <<"p", "i", "c", "k">>]>>, <<>>, <<eColor>>)

\* message Skipped {..}: replaced by a type of the user's (Config::mapped_types).
mSkipped ==
    Message(<<"S", "k", "i", "p", "p", "e", "d">>,
            <<Field(<<"a">>, 1, "Optional", "Int32", None, None)>>,
            <<>>, <<mPlain>>, <<>>)

\* message Inner { Deep deep = 1; map<string, Deep> by_name = 2; .. }
mInner ==
    Message(<<"I", "n", "n", "e", "r">>,
            <<Field(<<"d", "e", "e", "p">>, 1, "Optional", "Message", Some(Fq(<<sPkg, sOuter, sInner, <<"D", "e", "e", "p">>>>)), None),
              Field(<<"b", "y", "_", "n", "a", "m", "e">>, 2, "Repeated", "Message",
                    Some(Fq(<<sPkg, sOuter, sInner, <<"B", "y", "N", "a", "m", "e", "E", "n", "t", "r", "y">>>>)), None)>>,
            <<>>,
            <<MapEntry(<<"B", "y", "N", "a", "m", "e", "E", "n", "t", "r", "y">>,
                       Field(<<"k", "e", "y">>, 1, "Optional", "String", None, None),
                       Field(<<"v", "a", "l", "u", "e">>, 2, "Optional", "Message",
                             Some(Fq(<<sPkg, sOuter, sInner, <<"D", "e", "e", "p">>>>)), None)),
              mDeep,
              mSkipped>>,
            <<>>)

\* message Outer { Inner inner = 1; map<int32, Inner> foo = 2;
\*                 oneof kind { int32 x = 3; group G = 4; Outer rec = 5; } .. }
mOuter ==
    Message(sOuter,
            <<Field(<<"i", "n", "n", "e", "r">>, 1, "Optional", "Message", Some(Fq(<<sPkg, sOuter, sInner>>)), None),
              Field(<<"f", "o", "o">>, 2, "Repeated", "Message", Some(Fq(<<sPkg, sOuter, <<"F", "o", "o", "E", "n", "t", "r", "y">>>>)), None),
              Field(<<"x">>, 3, "Optional", "Int32", None, Some(0)),
              Field(<<"g">>, 4, "Optional", "Group", Some(Fq(<<sPkg, sOuter, <<"G">>>>)), Some(0)),
              Field(<<"r", "e", "c">>, 5, "Optional", "Message", Some(Fq(<<sPkg, sOuter>>)), Some(0))>>,
            <<[name |-> <<"k", "i", "n", "d">>]>>,
            <<mInner,
              MapEntry(<<"F", "o", "o", "E", "n", "t", "r", "y">>,
                       Field(<<"k", "e", "y">>, 1, "Optional", "Int32", None, None),
                       Field(<<"v", "a", "l", "u", "e">>, 2, "Optional", "Message",
                             Some(Fq(<<sPkg, sOuter, sInner>>)), None))>>,
            <<eColor>>)

\* A message and an enum replaced by types of the user's.
mMapped == Message(<<"M", "a", "p", "p", "e", "d">>, <<Field(<<"a">>, 1, "Optional", "Int32", None, None)>>,
                   <<>>, <<mPlain>>, <<>>)

eMappedKind == Enum(<<"M", "a", "p", "p", "e", "d", "K", "i", "n", "d">>, <<EnumValue(<<"Z", "E", "R", "O">>, 0)>>)

sGreeter ==
    Service(<<"G", "r", "e", "e", "t", "e", "r">>,
            <<Method(<<"S", "a", "y", "H", "e", "l", "l", "o">>, Fq(<<sPkg, sOuter>>), Fq(<<sPkg, <<"P", "l", "a", "i", "n">>>>)),
              Method(<<"P", "i", "n", "g">>, <<".", "g", "o", "o", "g", "l", "e", ".", "p", "r", "o", "t", "o", "b", "u", "f", ".", "E", "m", "p", "t", "y">>, Fq(<<sPkg, sOuter, sInner>>))>>)

sAdmin == Service(<<"A", "d", "m", "i", "n">>, <<>>)

TopMessages == {mPlain, mOuter, mMapped}

TopEnums == {eColor, eMappedKind}

TopServices == {sGreeter, sAdmin}

\* The most top-level messages, enums and services of a file.
MaxMessages == 2

MaxEnums == 2

MaxServices == 2

WalkConfig(service_generator) ==
    [service_generator |-> service_generator,
     strip_enum_prefix |-> TRUE,
     prost_types       |-> TRUE,
     mapped_types      |-> {<<Fq(<<sPkg, <<"M", "a", "p", "p", "e", "d">>>>), <<"u", "6", "4">>>>,
                            <<Fq(<<sPkg, <<"M", "a", "p", "p", "e", "d", "K", "i", "n", "d">>>>), <<"i", "3", "2">>>>,
                            <<Fq(<<sPkg, sOuter, sInner, <<"S", "k", "i", "p", "p", "e", "d">>>>), <<":", ":", "e", "x", "t", ":", ":", "S", "k", "i", "p", "p", "e", "d">>>>},
     btree_map         |-> {<<".", "p", "k", "g", ".", "O", "u", "t", "e", "r", ".", "f", "o", "o">>},
     type_attributes   |-> <<<<<<".", "p", "k", "g", ".", "P", "l", "a", "i", "n">>, <<"#", "[", "d", "e", "r", "i", "v", "e", "(", "E", "q", ")", "]">>>>>>,
     field_attributes  |-> <<<<<<"n", "u", "m", "s">>, <<"#", "[", "s", "e", "r", "d", "e", "(", "d", "e", "f", "a", "u", "l", "t", ")", "]">>>>>>]

\* The MessageGraph of these declarations: Outer holds itself through rec.
WalkGraph == {<<Fq(<<sPkg, sOuter>>), Fq(<<sPkg, sOuter>>)>>}

\* A call of generate.  The build checks overflow: no walk below has an
\* integer overflow.
WalkInput(file, service_generator, log_debug, equal_pick) ==
    [file |-> file, config |-> WalkConfig(service_generator), graph |-> WalkGraph,
     log_debug |-> log_debug, build |-> [overflow_checks |-> TRUE, equal_pick |-> equal_pick]]

\* The sequences of at most n declarations of S, no declaration twice.
Declarations(S, n) ==
    {s \in SeqsUpTo(S, n) : \A i, j \in DOMAIN s : i # j => s[i] # s[j]}

sFileName == <<"a", ".", "p", "r", "o", "t", "o">>

\* The files protoc writes: every declaration has its location.
RegularFiles ==
    {File(Some(sFileName), Some(sPkg), Some(sProto3), ms, es, ss, Some(FileLocations(ms, es, ss))) :
        ms \in Declarations(TopMessages, MaxMessages),
        es \in Declarations(TopEnums, MaxEnums),
        ss \in Declarations(TopServices, MaxServices)}

\* Files the pass gives up on: no source info, no package, an unknown syntax,
\* and no location for a declaration.
IrregularFiles ==
    {File(Some(sFileName), Some(sPkg), Some(sProto3), <<mPlain>>, <<>>, <<>>, None),
     File(Some(sFileName), None, Some(sProto3), <<mPlain>>, <<>>, <<>>,
          Some(FileLocations(<<mPlain>>, <<>>, <<>>))),
     File(Some(sFileName), Some(sPkg), Some(<<"p", "r", "o", "t", "o", "4">>), <<mPlain>>, <<>>, <<>>,
          Some(FileLocations(<<mPlain>>, <<>>, <<>>))),
     File(Some(sFileName), Some(sPkg), None, <<mPlain>>, <<eColor>>, <<sAdmin>>,
          Some(FileLocations(<<mPlain>>, <<>>, <<>>)))}

\* Files without a name.
NamelessFiles ==
    {File(None, Some(sPkg), Some(sProto3), <<mPlain>>, <<eColor>>, <<sAdmin>>,
          Some(FileLocations(<<mPlain>>, <<eColor>>, <<sAdmin>>))),
     File(None, None, Some(sProto3), <<mPlain>>, <<>>, <<>>,
          Some(FileLocations(<<mPlain>>, <<>>, <<>>)))}

\* The paths given a second location, and the comment of that location.
DoubledPaths == {<<4, 0>>, <<4, 0, 2, 0>>, <<5, 0>>, <<5, 0, 2, 1>>, <<6, 0>>}

Doubled(p) == [path |-> p, comment |-> <<9, 9>>]

\* Files with two locations of one path, the second after or before the
\* locations of protoc.
DoubledFiles ==
    {File(Some(sFileName), Some(sPkg), Some(sProto3), <<mPlain>>, <<eColor>>, <<sAdmin>>,
          Some(locations)) :
        locations \in
            {FileLocations(<<mPlain>>, <<eColor>>, <<sAdmin>>) \o <<Doubled(p)>> :
                 p \in DoubledPaths}
            \cup {<<Doubled(p)>> \o FileLocations(<<mPlain>>, <<eColor>>, <<sAdmin>>) :
                      p \in DoubledPaths}}

\* The calls tried.  The log level shows only in a file without a name and
\* the entry a search returns only in a file with two locations of a path;
\* both are drawn where they show.
WalkInputs ==
    {WalkInput(f, h, FALSE, 0) : f \in RegularFiles, h \in BOOLEAN}
        \cup {WalkInput(f, h, d, 0) :
                  f \in IrregularFiles \cup NamelessFiles, h \in BOOLEAN, d \in BOOLEAN}
        \cup {WalkInput(f, h, FALSE, k) : f \in DoubledFiles, h \in BOOLEAN, k \in {0, 1}}

Init ==
    /\ pc = "start"
    /\ args \in WalkInputs
    /\ cg = NoGen
    /\ gen_idx = 0
    /\ ret = <<>>

Spec == Init /\ [][Next]_vars

(***************************************************************************)
(* append_field and append_oneof on one field: args holds the field, the   *)
(* name of the message it is declared in, the file's syntax and the        *)
(* MessageGraph; cg holds the generator after the call.                    *)
(***************************************************************************)
sOuterFq == Fq(<<sPkg, sOuter>>)

sInnerFq == Fq(<<sPkg, sOuter, sInner>>)

FieldOptions == {None, Some([packed |-> None]), Some([packed |-> Some(TRUE)]),
                 Some([packed |-> Some(FALSE)])}

\* The type of a field, with the name it refers to when it has one.
FieldTypes ==
    {<<t, None>> : t \in {"Int32", "Double", "Bool", "String", "Bytes"}}
        \cup {<<"Enum", Some(Fq(<<sPkg, sOuter, <<"C", "o", "l", "o", "r">>>>))>>,
              <<"Group", Some(Fq(<<sPkg, sOuter, <<"G">>>>))>>,
              <<"Message", Some(sOuterFq)>>,
              <<"Message", Some(sInnerFq)>>}

FieldInputs ==
    {[Field(<<"i", "n", "n", "e", "r">>, 1, label, ty[1], ty[2], None) EXCEPT !.options = options] :
        label \in {"Optional", "Required", "Repeated"},
        ty \in FieldTypes,
        options \in FieldOptions}

\* What is_nested may answer for the two message types.
FieldGraphs == SUBSET {<<sOuterFq, sOuterFq>>, <<sInnerFq, sOuterFq>>}

FieldEnv(graph) ==
    [config |-> WalkConfig(FALSE), graph |-> graph]

\* The build of the generator: whether integer overflow panics, and which of
\* several equal entries a binary search returns.
Build(overflow_checks, equal_pick) ==
    [overflow_checks |-> overflow_checks, equal_pick |-> equal_pick]

\* The build of the calls below whose inputs overflow no integer and have at
\* most one location of a path: no build tells them apart.
PlainBuild == Build(TRUE, 0)

\* The generator as append_message leaves it for the call: inside the first
\* message of the file, at the given path, in the given module.
Generator(package, syntax, depth, path, locations, build) ==
    [package     |-> package,
     source_info |-> SortByPath(RetainLocations(locations)),
     syntax      |-> syntax,
     depth       |-> depth,
     path        |-> path,
     buf         |-> <<>>,
     services    |-> <<>>,
     aborted     |-> FALSE,
     calls       |-> <<>>,
     build       |-> build]

FieldLocations == <<Loc(<<4, 0>>), Loc(<<4, 0, 8, 0>>), Loc(<<4, 0, 2, 0>>)>>

InitField ==
    /\ pc = "field"
    /\ args \in [field : FieldInputs, msg_name : {sOuterFq},
                 syntax : {"Proto2", "Proto3"}, graph : FieldGraphs]
    /\ cg = NoGen
    /\ gen_idx = 0
    /\ ret = <<>>

CallAppendField ==
    /\ pc = "field"
    /\ cg' = append_field(Generator(sPkg, args.syntax, 1, <<4, 0, 2, 0>>, FieldLocations,
                                    PlainBuild),
                          FieldEnv(args.graph), args.msg_name, args.field)
    /\ pc' = "field_done"
    /\ UNCHANGED <<args, gen_idx, ret>>

\* The field as the one member of the first oneof of the message.
CallAppendOneof ==
    /\ pc = "field"
    /\ args.field.label = "Optional"
    /\ cg' = append_oneof(Generator(sPkg \o sDot \o sOuter, args.syntax, 1, <<4, 0>>,
                                    FieldLocations, PlainBuild),
                          FieldEnv(args.graph), args.msg_name, [name |-> <<"k", "i", "n", "d">>], 0,
                          <<<<[args.field EXCEPT !.oneof_index = Some(0)], 0>>>>)
    /\ pc' = "oneof_done"
    /\ UNCHANGED <<args, gen_idx, ret>>

NextField == CallAppendField \/ CallAppendOneof

SpecField == InitField /\ [][NextField]_vars

(***************************************************************************)
(* append_enum on one enum: args holds the enum and whether the prefix is  *)
(* stripped from its values.                                               *)
(***************************************************************************)
\* The most values of an enum.
MaxValues == 3

ValueNames == <<<<"C", "O", "L", "O", "R", "_", "R", "E", "D">>, <<"C", "O", "L", "O", "R", "_", "C", "R", "I", "M", "S", "O", "N">>, <<"C", "O", "L", "O", "R", "_", "B", "L", "U", "E">>, <<"C", "O", "L", "O", "R", "_", "N", "A", "V", "Y">>,
                <<"G", "R", "E", "E", "N">>>>

ValueNumbers == {0, 1, 2}

EnumInputs ==
    {Enum(<<"C", "o", "l", "o", "r">>, [i \in DOMAIN numbers |-> EnumValue(ValueNames[i], numbers[i])]) :
        numbers \in SeqsUpTo(ValueNumbers, MaxValues)}

EnumEnv(strip) ==
    [config |-> [WalkConfig(FALSE) EXCEPT !.strip_enum_prefix = strip],
     graph |-> {}]

InitEnum ==
    /\ pc = "enum"
    /\ args \in [desc : EnumInputs, strip : BOOLEAN]
    /\ cg = NoGen
    /\ gen_idx = 0
    /\ ret = <<>>

CallAppendEnum ==
    /\ pc = "enum"
    /\ cg' = append_enum(Generator(sPkg, "Proto3", 0, <<5, 0>>,
                                   EnumLocations(args.desc, <<5, 0>>), PlainBuild),
                         EnumEnv(args.strip), args.desc)
    /\ pc' = "enum_done"
    /\ UNCHANGED <<args, gen_idx, ret>>

NextEnum == CallAppendEnum

SpecEnum == InitEnum /\ [][NextEnum]_vars

(***************************************************************************)
(* The default of an enum field against the enum it names: args.value is a *)
(* value of the enum args.enum of the package; the enum is lowered by      *)
(* append_enum and a field of its type with the value as its default by    *)
(* append_field.  ret holds the text of the enum.                          *)
(***************************************************************************)
\* Names of enums: in upper camel case as the style guide asks, and not.
EnumTypeNames ==
    {<<"C", "o", "l", "o", "r">>, <<"c", "o", "l", "o", "r">>, <<"M", "y", "E", "n", "u", "m">>, <<"m", "y", "_", "e", "n", "u", "m">>, <<"E", "R", "R">>, <<"E", "r", "r">>}

\* Names of values: with the name of an enum before them, and without.
DefaultNames ==
    {<<"C", "O", "L", "O", "R", "_", "R", "E", "D">>, <<"R", "E", "D">>, <<"C", "O", "L", "O", "R">>, <<"C", "o", "l", "o", "r", "R", "e", "d">>, <<"M", "Y", "_", "E", "N", "U", "M", "_", "A">>, <<"E", "R", "R", "_", "X">>,
     <<"E", "R", "R", "_", "1">>, <<"c", "o", "l", "o", "r", "f", "u", "l">>}

DefaultField ==
    [Field(<<"k", "i", "n", "d">>, 1, "Optional", "Enum", Some(Fq(<<sPkg, args.enum>>)), None)
        EXCEPT !.default_value = Some(args.value)]

InitDefault ==
    /\ pc = "default"
    /\ args \in [enum : EnumTypeNames, value : DefaultNames, strip : BOOLEAN]
    /\ cg = NoGen
    /\ gen_idx = 0
    /\ ret = <<>>

\* The enum as the first of the file.
CallLowerEnum ==
    /\ pc = "default"
    /\ ret' = append_enum(Generator(sPkg, "Proto2", 0, <<5, 0>>,
                                    EnumLocations(Enum(args.enum, <<EnumValue(args.value, 0)>>),
                                                  <<5, 0>>),
                                    PlainBuild),
                          EnumEnv(args.strip),
                          Enum(args.enum, <<EnumValue(args.value, 0)>>)).buf
    /\ pc' = "enum_lowered"
    /\ UNCHANGED <<args, cg, gen_idx>>

\* The field as the first of the first message of the file.
CallLowerDefault ==
    /\ pc = "enum_lowered"
    /\ cg' = append_field(Generator(sPkg, "Proto2", 1, <<4, 0, 2, 0>>, FieldLocations,
                                    PlainBuild),
                          EnumEnv(args.strip), sOuterFq, DefaultField)
    /\ pc' = "default_lowered"
    /\ UNCHANGED <<args, gen_idx, ret>>

NextDefault == CallLowerEnum \/ CallLowerDefault

SpecDefault == InitDefault /\ [][NextDefault]_vars

(***************************************************************************)
(* The default of a bytes field: args.bytes are written as append_field    *)
(* writes them and the text is decoded by unescape_c_escape_string.  ret   *)
(* holds the text: ascii is what ascii::escape_default gives for the       *)
(* bytes, literal is what is written, every character of ascii escaped     *)
(* again by char::escape_default.                                          *)
(***************************************************************************)
\* The most bytes of a default.
MaxBytes == 2

ByteSamples == {0, 9, 10, 34, 39, 48, 65, 92, 120, 127, 255}

InitEscape ==
    /\ pc = "escape"
    /\ args \in [bytes : SeqsUpTo(ByteSamples, MaxBytes), overflow_checks : BOOLEAN]
    /\ cg = NoGen
    /\ gen_idx = 0
    /\ ret = <<>>

\* for b in .. { self.buf.extend(ascii::escape_default(b).flat_map(..)) }
CallEscapeDefault ==
    /\ pc = "escape"
    /\ ret' = [ascii   |-> AsciiEscapeAll(args.bytes),
               literal |-> EscapeBytes(args.bytes)]
    /\ pc' = "escaped"
    /\ UNCHANGED <<args, cg, gen_idx>>

CallUnescape ==
    /\ pc = "escaped"
    /\ ret' = [ascii   |-> ret.ascii,
               literal |-> ret.literal,
               of_ascii   |-> unescape_c_escape_string(ret.ascii, args.overflow_checks),
               of_literal |-> unescape_c_escape_string(ret.literal, args.overflow_checks)]
    /\ pc' = "unescaped"
    /\ UNCHANGED <<args, cg, gen_idx>>

NextEscape == CallEscapeDefault \/ CallUnescape

SpecEscape == InitEscape /\ [][NextEscape]_vars

(***************************************************************************)
(* unescape_c_escape_string on one literal: args.literal is the text of a  *)
(* default as the descriptor has it.                                       *)
(***************************************************************************)
\* The longest literal decoded.
MaxLiteral == 5

\* A backslash, a low and a high octal digit, the letter of the hex escape, a
\* hex digit that is also a named escape, a sign, and a letter that is none
\* of these.
LiteralAlphabet == {"\\", "1", "7", "x", "f", "+", "q"}

\* The literals over the alphabet, and every printable character after one
\* backslash.
Literals ==
    SeqsUpTo(LiteralAlphabet, MaxLiteral)
        \cup {<<"\\", Printable[i]>> : i \in DOMAIN Printable \ {65}}

InitUnescape ==
    /\ pc = "unescape"
    /\ args \in [literal : Literals, overflow_checks : BOOLEAN]
    /\ cg = NoGen
    /\ gen_idx = 0
    /\ ret = <<>>

CallUnescapeLiteral ==
    /\ pc = "unescape"
    /\ ret' = unescape_c_escape_string(args.literal, args.overflow_checks)
    /\ pc' = "decoded"
    /\ UNCHANGED <<args, cg, gen_idx>>

NextUnescape == CallUnescapeLiteral

SpecUnescape == InitUnescape /\ [][NextUnescape]_vars

(***************************************************************************)
(* append_doc on one path: args.locations is SourceCodeInfo.location as    *)
(* the file has it, each comment named by its place in the file, and       *)
(* args.path is the path of the generator; args.equal_pick is which of     *)
(* several locations of that path the search of the build returns.         *)
(***************************************************************************)
\* The most locations of a file.
MaxLocations == 3

LocationPaths == {<<>>, <<4>>, <<4, 0>>, <<4, 1>>, <<4, 0, 2>>, <<4, 0, 2, 0>>, <<5, 0>>}

LocationInputs ==
    {[i \in DOMAIN paths |-> [path |-> paths[i], comment |-> i]] :
        paths \in SeqsUpTo(LocationPaths, MaxLocations)}

InitLocation ==
    /\ pc = "doc"
    /\ args \in [locations : LocationInputs, path : LocationPaths,
                 equal_pick : 0..(MaxLocations - 1)]
    /\ cg = NoGen
    /\ gen_idx = 0
    /\ ret = <<>>

CallAppendDoc ==
    /\ pc = "doc"
    /\ cg' = append_doc(Generator(sPkg, "Proto3", 0, args.path, args.locations,
                                   Build(TRUE, args.equal_pick)))
    /\ pc' = "doc_done"
    /\ UNCHANGED <<args, gen_idx, ret>>

NextLocation == CallAppendDoc

SpecLocation == InitLocation /\ [][NextLocation]_vars

(***************************************************************************)
(* append_message on one message whose fields are spread over its oneofs:  *)
(* every field is an int32 or a group, is outside the oneofs or names one  *)
(* by its index, and the tags are declared in rising or in falling order.  *)
(***************************************************************************)
\* The most fields of the message.
MaxFields == 3

\* The most oneofs the message declares.
MaxOneofs == 2

MemberNames == <<<<"a">>, <<"b">>, <<"c">>, <<"d">>, <<"e">>, <<"f">>>>

OneofNames == <<<<"k", "i", "n", "d">>, <<"o", "t", "h", "e", "r">>, <<"m", "o", "r", "e">>,
                <<"r", "e", "s", "t">>>>

\* FieldDescriptorProto.oneof_index, as the descriptor has it.
OneofIndexes == {None, Some(0), Some(1), Some(2)}

OneofMessages ==
    {Message(sOuter,
             [i \in 1..n |->
                 Field(MemberNames[i], IF rising THEN i ELSE n + 1 - i, "Optional", types[i],
                       IF types[i] = "Group" THEN Some(Fq(<<sPkg, sOuter, <<"G">>>>)) ELSE None,
                       indexes[i])],
             [i \in 1..d |-> [name |-> OneofNames[i]]],
             <<>>, <<>>) :
        <<n, rising, types, indexes, d>> \in
            UNION {{<<n, rising, types, indexes, d>> :
                        rising \in BOOLEAN,
                        types \in [1..n -> {"Int32", "Group"}],
                        indexes \in [1..n -> OneofIndexes],
                        d \in 0..MaxOneofs} : n \in 0..MaxFields}}

InitOneof ==
    /\ pc = "message"
    /\ args \in [message : OneofMessages]
    /\ cg = NoGen
    /\ gen_idx = 0
    /\ ret = <<>>

\* The message as the first of a proto2 file.
CallAppendMessage ==
    /\ pc = "message"
    /\ cg' = append_message(Generator(sPkg, "Proto2", 0, <<4, 0>>,
                                      MessageLocations(args.message, <<4, 0>>),
                                      PlainBuild),
                            FieldEnv({}), args.message)
    /\ pc' = "message_done"
    /\ UNCHANGED <<args, gen_idx, ret>>

NextOneof == CallAppendMessage

SpecOneof == InitOneof /\ [][NextOneof]_vars

(***************************************************************************)
(* The module scope at a nesting of args.depth: the generator is where     *)
(* append_message has it for a message that lies args.depth messages named *)
(* M deep, each the first nested type of the one around it.  push_mod and  *)
(* pop_mod are taken alone, and append_message on a message with up to two *)
(* more levels below it; args.overflow_checks is the build.                *)
(***************************************************************************)
sM == <<"M">>

\* The nestings tried: the outermost two and the last three a u8 can count.
ScopeDepths == {0, 1, MaxDepth - 2, MaxDepth - 1, MaxDepth}

\* The scope d messages deep: pkg.M.M ..
NestedPackage(d) == sPkg \o [i \in 1..(2 * d) |-> IF i % 2 = 1 THEN "." ELSE "M"]

\* The path of the message d messages deep: 4, 0, 3, 0, 3, 0 ..
NestedPath(d) == <<4, 0>> \o [i \in 1..(2 * d) |-> IF i % 2 = 1 THEN 3 ELSE 0]

\* No attributes of the user's: none is looked for.
ScopeEnv ==
    [FieldEnv({}) EXCEPT !.config.type_attributes = <<>>, !.config.field_attributes = <<>>]

\* A message with no module of its own, one with a oneof and an enum, and
\* messages that nest the latter one and two levels down.
ScopeMessages ==
    {mPlain,
     mDeep,
     Message(sM, <<Field(sA, 1, "Optional", "Int32", None, None)>>, <<>>, <<mDeep>>, <<>>),
     Message(sM, <<Field(sA, 1, "Optional", "Int32", None, None)>>, <<>>,
             <<Message(sM, <<Field(sB, 1, "Optional", "Int32", None, None)>>, <<>>,
                       <<mDeep>>, <<>>)>>,
             <<>>)}

ScopeGenerator ==
    Generator(NestedPackage(args.depth), "Proto2", args.depth, NestedPath(args.depth),
              MessageLocations(args.message, NestedPath(args.depth)),
              Build(args.overflow_checks, 0))

InitScope ==
    /\ pc = "scope"
    /\ args \in [depth : ScopeDepths, overflow_checks : BOOLEAN, message : ScopeMessages]
    /\ cg = NoGen
    /\ gen_idx = 0
    /\ ret = <<>>

CallPushMod ==
    /\ pc = "scope"
    /\ cg' = push_mod(ScopeGenerator, args.message.name)
    /\ pc' = "pushed"
    /\ UNCHANGED <<args, gen_idx, ret>>

CallPopMod ==
    /\ pc = "pushed"
    /\ cg' = pop_mod(cg)
    /\ pc' = "popped"
    /\ UNCHANGED <<args, gen_idx, ret>>

CallNestedMessage ==
    /\ pc = "scope"
    /\ cg' = append_message(ScopeGenerator, ScopeEnv, args.message)
    /\ pc' = "scope_done"
    /\ UNCHANGED <<args, gen_idx, ret>>

NextScope == CallPushMod \/ CallPopMod \/ CallNestedMessage

SpecScope == InitScope /\ [][NextScope]_vars

(***************************************************************************)
(* strip_enum_prefix applied to every prefix and name                      *)
(***************************************************************************)
InitStrip ==
    /\ pc = "strip"
    /\ args \in [prefix : StripPrefixes, name : StripNames]
    /\ cg = NoGen
    /\ gen_idx = 0
    /\ ret = <<>>

CallStripEnumPrefix ==
    /\ pc = "strip"
    /\ ret' = strip_enum_prefix(args.prefix, args.name)
    /\ pc' = "stripped"
    /\ UNCHANGED <<args, cg, gen_idx>>

NextStrip == CallStripEnumPrefix

SpecStrip == InitStrip /\ [][NextStrip]_vars

(***************************************************************************)
(* resolve_ident applied to every identifier from every scope              *)
(***************************************************************************)
InitResolve ==
    /\ pc = "resolve"
    /\ args \in [package : Packages, pb_ident : PbIdents]
    /\ cg = NoGen
    /\ gen_idx = 0
    /\ ret = <<>>

CallResolveIdent ==
    /\ pc = "resolve"
    /\ ret' = resolve_ident(args.package, args.pb_ident)
    /\ pc' = "resolved"
    /\ UNCHANGED <<args, cg, gen_idx>>

NextResolve == CallResolveIdent

SpecResolve == InitResolve /\ [][NextResolve]_vars

(***************************************************************************)
(* Claims about the pure functions                                         *)
(***************************************************************************)
\* The two strings of the example: scope pkg.a.c and target .pkg.a.b.Target.
ExampleScope == Join(<<sPkg, sA, sC>>, sDot)

ExampleTarget == sDot \o Join(<<sPkg, sA, sB, sTarget>>, sDot)

AtExample ==
    /\ pc = "resolved"
    /\ args.package = ExampleScope
    /\ args.pb_ident = ExampleTarget

\* C3 as stated: resolving .pkg.a.b.Target from the scope pkg.a.c yields one
\* ascend token, no descend token, and Target.
C3_Original ==
    AtExample => ret = Ok(Join(<<sSuper, sTarget>>, sColons))

\* C3 as amended: resolving .pkg.a.b.Target from the scope pkg.a.c yields one
\* ascend token, then the one descend token b, then Target.
C3_ExampleResolution ==
    AtExample => ret = Ok(Join(<<sSuper, sB, sTarget>>, sColons))

C3_Witness == AtExample /\ ~ret.panic

\* The length of the longest common leading prefix of two segment lists.
CommonPrefixLen(xs, ys) ==
    CHOOSE n \in 0..Len(xs) :
        /\ n <= Len(ys)
        /\ \A i \in 1..n : xs[i] = ys[i]
        /\ ~(n < Len(xs) /\ n < Len(ys) /\ xs[n + 1] = ys[n + 1])

\* C4: for every well-formed target and every scope, the result is one
\* ascend token per segment of the current scope past the longest common
\* prefix, then the snake-cased segments of the target's owning scope past
\* it, then the camel-cased type name; equal scopes give the bare type name.
C4_RelativePath ==
    (pc = "resolved" /\ args.pb_ident # <<>> /\ Head(args.pb_ident) = ".") =>
        LET current == Split(args.package, ".")
            target  == Split(Tail(args.pb_ident), ".")
            owning  == SubSeq(target, 1, Len(target) - 1)
            type    == target[Len(target)]
            n       == CommonPrefixLen(current, owning)
            ascend  == [i \in 1..(Len(current) - n) |-> sSuper]
            descend == [i \in 1..(Len(owning) - n) |-> to_snake(owning[n + i])]
        IN  /\ ret = Ok(Join(ascend \o descend \o <<to_upper_camel(type)>>, sColons))
            /\ owning = current => ret = Ok(to_upper_camel(type))

\* A target two scopes away from the current scope, entered through a
\* message's module.
C4_Witness ==
    /\ pc = "resolved"
    /\ args.package = Join(<<sPkg, sA>>, sDot)
    /\ args.pb_ident = sDot \o Join(<<sPkg, sOuter, sInner, sMyType>>, sDot)
    /\ ret = Ok(Join(<<sSuper, <<"o", "u", "t", "e", "r">>,
                       <<"i", "n", "n", "e", "r">>, <<"M", "y", "T", "y", "p", "e">>>>,
                     sColons))

\* value[Len(prefix)+1 ..] when value starts with prefix and an uppercase
\* character follows it.
HasCamelPrefix(prefix, value) ==
    /\ Len(prefix) < Len(value)
    /\ \A i \in 1..Len(prefix) : value[i] = prefix[i]
    /\ IsUpper(value[Len(prefix) + 1])

\* C5: strip_enum_prefix removes the prefix exactly when the value starts
\* with it and the next character exists and is uppercase; otherwise the
\* value is returned unchanged (the five examples of the test included).
C5_StripEnumPrefix ==
    pc = "stripped" =>
        /\ IF HasCamelPrefix(args.prefix, args.name)
           THEN ret = [i \in 1..(Len(args.name) - Len(args.prefix)) |->
                          args.name[Len(args.prefix) + i]]
           ELSE ret = args.name
        /\ args.prefix = sFoo =>
              /\ args.name = sFooBar => ret = sBar
              /\ args.name = sFoobar => ret = sFoobar
              /\ args.name = sFoo => ret = sFoo
              /\ args.name = sBar => ret = sBar
              /\ args.name = sFoo1 => ret = sFoo1

C5_Witness ==
    /\ pc = "stripped"
    /\ args.prefix = sFoo
    /\ args.name = sFooBar
    /\ ret = sBar

(***************************************************************************)
(* Properties of the walk and of the lowering                              *)
(***************************************************************************)
\* The lines of one kind written so far, in the order written.
Lines(kind) == SelectSeq(cg.buf, LAMBDA l : l.k = kind)

HasPart(parts, t) == \E i \in DOMAIN parts : parts[i].t = t

\* The returned calls of append_message and append_enum on the top-level
\* declarations, in the order they were made.
TopLevelCalls ==
    SelectSeq(cg.calls, LAMBDA c : /\ c.fn \in {"append_message", "append_enum"}
                                   /\ Len(c.entry.path) = 2)

\* The first n declarations of v, as calls of fn under the field number kind.
VisitsOf(fn, kind, v, n) ==
    [i \in 1..n |-> [fn |-> fn, what |-> Fq(<<cg.package, v[i].name>>), path |-> <<kind, i - 1>>]]

\* The calls expected once n messages and m enums are visited.
ExpectedVisits(n, m) ==
    VisitsOf("append_message", 4, args.file.message_type, n)
        \o VisitsOf("append_enum", 5, args.file.enum_type, m)

VisitsAre(n, m) ==
    [i \in DOMAIN TopLevelCalls |->
        [fn |-> TopLevelCalls[i].fn, what |-> TopLevelCalls[i].what,
         path |-> TopLevelCalls[i].entry.path]] = ExpectedVisits(n, m)

\* The generator was called with the first n services, in order, and then
\* finalized when finalized holds.
HookCallsAre(n, finalized) ==
    /\ Len(cg.services) = n + (IF finalized THEN 1 ELSE 0)
    /\ \A i \in 1..n :
           /\ cg.services[i].fn = "generate"
           /\ cg.services[i].service.proto_name = args.file.service[i].name
    /\ finalized => cg.services[n + 1].fn = "finalize"

\* C1: generate visits the top-level messages in declaration order, then the
\* top-level enums in declaration order; with a service generator configured
\* it then calls the generator's generate once per service, in declaration
\* order, and its finalize once, after the last service; with none configured
\* neither is ever called.
C1_TraversalOrder ==
    LET messages == Len(args.file.message_type)
        enums    == Len(args.file.enum_type)
        services == Len(args.file.service)
    IN  /\ pc = "messages" => VisitsAre(gen_idx, 0) /\ cg.services = <<>>
        /\ pc = "enums" => VisitsAre(messages, gen_idx) /\ cg.services = <<>>
        /\ pc = "services" =>
               /\ args.config.service_generator
               /\ VisitsAre(messages, enums)
               /\ HookCallsAre(gen_idx, FALSE)
        /\ pc = "done" =>
               /\ VisitsAre(messages, enums)
               /\ IF args.config.service_generator
                  THEN HookCallsAre(services, TRUE)
                  ELSE cg.services = <<>>
        /\ (cg # NoGen /\ ~args.config.service_generator) => cg.services = <<>>

\* A finished pass over two messages, an enum and two services with a generator.
C1_Witness ==
    /\ pc = "done"
    /\ args.config.service_generator
    /\ Len(args.file.message_type) = 2
    /\ Len(args.file.enum_type) >= 1
    /\ Len(args.file.service) = 2
    /\ Len(TopLevelCalls) >= 3
    /\ Len(cg.services) = 3

\* C2: the structural path is a balanced stack: every call of append_message,
\* append_enum, append_oneof and push_service returns with the path it was
\* entered with, the return for a known type included, and the path is empty
\* when generate finishes.
C2_BalancedPath ==
    cg # NoGen =>
        /\ \A i \in DOMAIN cg.calls :
               /\ cg.calls[i].fn \in {"append_message", "append_enum", "append_oneof",
                                      "push_service"}
               /\ cg.calls[i].exit.path = cg.calls[i].entry.path
        /\ pc = "done" => cg.path = <<>>

\* A finished pass that made each of the four calls, one of them on a message
\* of a known type and one on a nested message.
C2_Witness ==
    /\ pc = "done"
    /\ \A fn \in {"append_message", "append_enum", "append_oneof", "push_service"} :
           \E i \in DOMAIN cg.calls : cg.calls[i].fn = fn
    /\ \E i \in DOMAIN cg.calls :
           /\ cg.calls[i].fn = "append_message"
           /\ cg.calls[i].what = Fq(<<sPkg, <<"M", "a", "p", "p", "e", "d">>>>)
           /\ cg.calls[i].from = cg.calls[i].to
    /\ \E i \in DOMAIN cg.calls :
           /\ cg.calls[i].fn = "append_message"
           /\ Len(cg.calls[i].entry.path) = 6
           /\ cg.calls[i].from < cg.calls[i].to

\* The field of args is of message type and the oracle answers that its type
\* is nested in the message it is declared in.
FieldIsNested == <<TypeNameOf(args.field), args.msg_name>> \in args.graph

\* C6: a field of message type is boxed if and only if it is not repeated and
\* is_nested(its type, the enclosing message) holds; a repeated field is never
\* boxed; a oneof variant of message type is boxed exactly when is_nested holds.
C6_Boxing ==
    /\ (pc = "field_done" /\ args.field.type = "Message") =>
           /\ Len(Lines("field")) = 1
           /\ Len(Lines("prost")) = 1
           /\ Lines("field")[1].boxed <=> (args.field.label # "Repeated" /\ FieldIsNested)
           /\ HasPart(Lines("prost")[1].parts, "boxed") <=> Lines("field")[1].boxed
    /\ (pc = "oneof_done" /\ args.field.type = "Message") =>
           /\ Len(Lines("variant")) = 1
           /\ Lines("variant")[1].boxed <=> FieldIsNested

\* A repeated field of a type nested in its message, written without a box.
C6_Witness ==
    /\ pc = "field_done"
    /\ args.field.type = "Message"
    /\ args.field.label = "Repeated"
    /\ FieldIsNested
    /\ Len(Lines("field")) = 1
    /\ ~Lines("field")[1].boxed
    /\ Lines("field")[1].wrapper = "Vec"

(***************************************************************************)
(* Map entries.  A line of the output names the declaration it is for by   *)
(* its path in the file: at.                                               *)
(***************************************************************************)
\* The message at a path <<4, i, 3, j, ..>> of the file.
RECURSIVE MessageAt(_, _)
MessageAt(messages, path) ==
    IF Len(path) = 2 THEN messages[path[2] + 1]
    ELSE MessageAt(messages[path[2] + 1].nested_type, SubSeq(path, 3, Len(path)))

\* The names of the messages around the message at a path, outermost first.
RECURSIVE ScopeAt(_, _)
ScopeAt(messages, path) ==
    IF Len(path) = 2 THEN <<>>
    ELSE <<messages[path[2] + 1].name>>
             \o ScopeAt(messages[path[2] + 1].nested_type, SubSeq(path, 3, Len(path)))

\* The module the message at a path is written in, and its full name.
ModuleAt(path) == Join(<<args.file.package[1]>> \o ScopeAt(args.file.message_type, path), sDot)

FqNameAt(path) == sDot \o ModuleAt(path) \o sDot \o MessageAt(args.file.message_type, path).name

FlaggedMapEntry(nested_type) ==
    /\ nested_type.options # None
    /\ nested_type.options[1].map_entry = Some(TRUE)

\* The map entries of the message at path p that the field refers to.
MapEntriesOf(p, field) ==
    LET message == MessageAt(args.file.message_type, p)
    IN  {i \in DOMAIN message.nested_type :
            /\ FlaggedMapEntry(message.nested_type[i])
            /\ field.type_name = Some(FqNameAt(p) \o sDot \o message.nested_type[i].name)}

\* The paths and fields of the plain fields of the message at path p that
\* refer to one of its map entries.
MapFieldsOf(p) ==
    LET message == MessageAt(args.file.message_type, p)
    IN  {k \in DOMAIN message.field :
            /\ message.field[k].oneof_index = None
            /\ MapEntriesOf(p, message.field[k]) # {}}

\* The line is the map field written for field k of the message at path p.
IsMapFieldLine(l, p, k) ==
    LET message == MessageAt(args.file.message_type, p)
        entry   == message.nested_type[CHOOSE i \in MapEntriesOf(p, message.field[k]) : TRUE]
        scope   == [package |-> ModuleAt(p)]
    IN  /\ l.k = "map_field"
        /\ l.at = p \o <<2, k - 1>>
        /\ l.key_ty = resolve_type(scope, Env, entry.field[1]).val
        /\ l.value_ty = resolve_type(scope, Env, entry.field[2]).val

\* C7: at every depth, a nested type flagged as a map entry is never written
\* as a declaration of its own, and every field outside the oneofs that refers
\* to it is written as a map field of the entry's key and value types, not as
\* a message field.
C7_MapEntries ==
    cg # NoGen =>
        /\ \A i \in DOMAIN cg.buf :
               cg.buf[i].k = "struct" =>
                   ~FlaggedMapEntry(MessageAt(args.file.message_type, cg.buf[i].at))
        /\ \A i \in DOMAIN cg.buf :
               cg.buf[i].k = "field" =>
                   LET p == SubSeq(cg.buf[i].at, 1, Len(cg.buf[i].at) - 2)
                       k == cg.buf[i].at[Len(cg.buf[i].at)] + 1
                   IN  k \notin MapFieldsOf(p)
        /\ pc = "done" =>
               \A i \in DOMAIN cg.buf :
                   cg.buf[i].k = "struct" =>
                       \A k \in MapFieldsOf(cg.buf[i].at) :
                           \E j \in DOMAIN cg.buf :
                               IsMapFieldLine(cg.buf[j], cg.buf[i].at, k)

\* A finished pass that wrote a map field of a top-level message and one of
\* a nested message.
C7_Witness ==
    /\ pc = "done"
    /\ \E j \in DOMAIN cg.buf : cg.buf[j].k = "map_field" /\ Len(cg.buf[j].at) = 4
    /\ \E j \in DOMAIN cg.buf : cg.buf[j].k = "map_field" /\ Len(cg.buf[j].at) = 6
    /\ \E i \in DOMAIN cg.buf : cg.buf[i].k = "struct" /\ MapFieldsOf(cg.buf[i].at) # {}

\* The indices of the values of the enum whose number no earlier value has.
FirstOccurrences(value) ==
    SelectSeq([i \in DOMAIN value |-> i],
              LAMBDA i : \A j \in 1..(i - 1) : value[j].number # value[i].number)

\* C8: the values written for an enum are exactly the entries whose number no
\* earlier entry has, in declaration order, and each is documented by the
\* comment at its index in the declaration, not at its position in the output.
C8_EnumAliases ==
    pc = "enum_done" =>
        LET first == FirstOccurrences(args.desc.value)
        IN  /\ ~cg.aborted
            /\ Len(Lines("value")) = Len(first)
            /\ Len(Lines("doc")) = Len(first) + 1
            /\ \A n \in DOMAIN first :
                   /\ Lines("value")[n].number = args.desc.value[first[n]].number
                   /\ Lines("value")[n].name =
                          (IF args.strip
                           THEN strip_enum_prefix(<<"C", "o", "l", "o", "r">>,
                                                  to_upper_camel(args.desc.value[first[n]].name))
                           ELSE to_upper_camel(args.desc.value[first[n]].name))
                   /\ Lines("value")[n].at = <<5, 0, 2, first[n] - 1>>
                   /\ Lines("doc")[n + 1].text = <<5, 0, 2, first[n] - 1>>

\* The enum {A = 1, B = 1, C = 2}: A and C are written, C with the comment at
\* index 2.
C8_Witness ==
    /\ pc = "enum_done"
    /\ [i \in DOMAIN args.desc.value |-> args.desc.value[i].number] = <<1, 1, 2>>
    /\ [n \in DOMAIN Lines("value") |-> Lines("value")[n].number] = <<1, 2>>
    /\ Lines("doc")[3].text = <<5, 0, 2, 2>>

\* The case of C9: in proto3, a field that is not repeated, of a message type
\* that is not nested in the message it is declared in; the example is the
\* field inner of type Inner in Outer.
OptionalMessageField ==
    /\ pc = "field_done"
    /\ args.syntax = "Proto3"
    /\ args.field.label = "Optional"
    /\ args.field.type = "Message"
    /\ ~FieldIsNested

\* C9 as the specification states it: the field is written without an
\* optional wrapper and without a box.
C9_Original ==
    OptionalMessageField =>
        /\ Len(Lines("field")) = 1
        /\ Lines("field")[1].wrapper = "none"
        /\ ~Lines("field")[1].boxed

\* C9: in proto3, a field that is not repeated, of a message type that is not
\* nested in its message, is written with the optional keyword and wrapper and
\* without a box.
C9_OptionalMessage ==
    OptionalMessageField =>
        /\ Len(Lines("field")) = 1
        /\ Len(Lines("prost")) = 1
        /\ Lines("field")[1].wrapper = "Option"
        /\ ~Lines("field")[1].boxed
        /\ HasPart(Lines("prost")[1].parts, "optional")
        /\ ~HasPart(Lines("prost")[1].parts, "boxed")

\* Inner inner = 1 in Outer, written as an Option.
C9_Witness ==
    /\ OptionalMessageField
    /\ args.field.type_name = Some(sInnerFq)
    /\ args.msg_name = sOuterFq
    /\ args.graph = {}
    /\ Len(Lines("field")) = 1
    /\ Lines("field")[1].wrapper = "Option"
    /\ Lines("field")[1].ty = <<"o", "u", "t", "e", "r", ":", ":", "I", "n", "n", "e", "r">>

\* The case of C10: a repeated field of a packable type that is packed: its
\* options set packed, or it has no options and the file is proto3.
PackedRepeatedField ==
    /\ pc = "field_done"
    /\ args.field.label = "Repeated"
    /\ args.field.type \in {"Int32", "Double", "Bool", "Enum"}
    /\ \/ args.field.options = Some([packed |-> Some(TRUE)])
       \/ args.field.options = None /\ args.syntax = "Proto3"

\* C10 as the specification states it: the attribute of the field carries a
\* packing token.
C10_Original ==
    PackedRepeatedField =>
        /\ Len(Lines("prost")) = 1
        /\ \E i \in DOMAIN Lines("prost")[1].parts :
               Lines("prost")[1].parts[i].t \in {"packed", "packed="}

\* C10: a packed repeated field of a packable type is written with the
\* repeated keyword and with no packing token: packed="false", the one
\* packing token there is, is not written for it.
C10_PackedRepeated ==
    PackedRepeatedField =>
        /\ Len(Lines("prost")) = 1
        /\ Len(Lines("field")) = 1
        /\ HasPart(Lines("prost")[1].parts, "repeated")
        /\ \A i \in DOMAIN Lines("prost")[1].parts :
               Lines("prost")[1].parts[i].t \notin {"packed", "packed="}
        /\ Lines("field")[1].wrapper = "Vec"

\* repeated int32 nums = 2 [packed = true] in proto3.
C10_Witness ==
    /\ PackedRepeatedField
    /\ args.syntax = "Proto3"
    /\ args.field.type = "Int32"
    /\ args.field.options = Some([packed |-> Some(TRUE)])
    /\ Len(Lines("prost")) = 1
    /\ HasPart(Lines("prost")[1].parts, "repeated")

\* Whether the attribute of the one field written carries packed="false".
OverrideWritten ==
    /\ Len(Lines("prost")) = 1
    /\ \E i \in DOMAIN Lines("prost")[1].parts : Lines("prost")[1].parts[i].t = "packed="

\* The packing the dialect gives a repeated field of a packable type: in
\* proto3 packed unless the options say packed = false, in proto2 unpacked
\* unless they say packed = true.
PackingInEffect ==
    IF args.syntax = "Proto3"
    THEN args.field.options # Some([packed |-> Some(FALSE)])
    ELSE args.field.options = Some([packed |-> Some(TRUE)])

\* C13: a repeated field of a packable type gets the override packed="false"
\* exactly when the packing in effect for it is off: in proto3 only when its
\* options set packed to false (a field with options that do not mention
\* packed stays packed), in proto2 unless they set packed to true; a repeated
\* field of a type that cannot be packed never gets the override.
C13_PackedDefaults ==
    (pc = "field_done" /\ args.field.label = "Repeated" /\ args.field.type # "Group") =>
        /\ ~cg.aborted
        /\ OverrideWritten <=> (args.field.type \in PackableTypes /\ ~PackingInEffect)

\* The state that refutes it: a proto3 repeated int32 whose options do not
\* mention packed is written with the override.
C13_Witness ==
    /\ pc = "field_done"
    /\ args.syntax = "Proto3"
    /\ args.field.label = "Repeated"
    /\ args.field.type = "Int32"
    /\ args.field.options = Some([packed |-> None])
    /\ OverrideWritten

\* What append_field does: the override follows FieldOptions::packed() of the
\* options whenever there are options, and the dialect only when there are none.
C13_AsWritten ==
    (pc = "field_done" /\ args.field.label = "Repeated" /\ args.field.type # "Group") =>
        /\ ~cg.aborted
        /\ OverrideWritten <=>
               /\ args.field.type \in PackableTypes
               /\ IF args.field.options = None THEN args.syntax # "Proto3"
                  ELSE args.field.options # Some([packed |-> Some(TRUE)])

\* The modules a scope lies in below the package of the file: the segments
\* push_mod added to it.
ScopeDepth(package) ==
    Len(SelectSeq(package, LAMBDA c : c = ".")) - Len(SelectSeq(args.file.package[1], LAMBDA c : c = "."))

\* The line that closes what line j opens: the first after it at its depth.
ClosedAt(j, to) ==
    \E c \in (j + 1)..to :
        /\ cg.buf[c].k = "close"
        /\ cg.buf[c].depth = cg.buf[j].depth
        /\ \A b \in (j + 1)..(c - 1) : cg.buf[b].depth > cg.buf[j].depth

\* In a walk from generate, over files nested as deep as those tried: every
\* call of append_message, append_enum and append_oneof is entered at the
\* depth its scope has below the package, returns with the scope and the
\* depth it was entered with and with every module it opened closed inside
\* its own text; at the end of generate the depth is 0 and the scope is the
\* package.
ScopeBalancedInWalk ==
    (cg # NoGen /\ IsSome(args.file.package)) =>
        /\ \A i \in DOMAIN cg.calls :
               /\ cg.calls[i].exit.package = cg.calls[i].entry.package
               /\ cg.calls[i].exit.depth = cg.calls[i].entry.depth
               /\ cg.calls[i].fn # "push_service"
                      => cg.calls[i].entry.depth = ScopeDepth(cg.calls[i].entry.package)
               /\ \A j \in (cg.calls[i].from + 1)..cg.calls[i].to :
                      cg.buf[j].k \in {"mod", "struct", "enum"} => ClosedAt(j, cg.calls[i].to)
        /\ pc = "done" => cg.depth = 0 /\ cg.package = args.file.package[1]

\* A finished pass that lowered a message two modules deep: Outer opens
\* outer, Inner opens inner in it, and Deep is lowered there.
ScopeBalancedInWalkSeen ==
    /\ pc = "done"
    /\ cg.depth = 0
    /\ \E i \in DOMAIN cg.calls :
           /\ cg.calls[i].fn = "append_message"
           /\ cg.calls[i].entry.depth = 2
           /\ cg.calls[i].entry.package = Join(<<sPkg, sOuter, sInner>>, sDot)
           /\ cg.calls[i].from < cg.calls[i].to
    /\ \E j \in DOMAIN cg.buf : cg.buf[j].k = "mod" /\ cg.buf[j].depth = 1
    /\ \E j \in DOMAIN cg.buf : cg.buf[j].k = "mod" /\ cg.buf[j].depth = 2

\* C17: module scope and indentation are balanced at any nesting: push_mod
\* adds one segment to the scope and one to the depth, pop_mod takes that
\* segment and one level away again, and every call of append_message,
\* however deep it lies and whatever it nests, returns with the scope and the
\* depth it was entered with, having been entered and having entered the
\* calls below it at the depth of their scope, with every module, struct and
\* enum it opened closed at its own depth.
C17_BalancedAtAnyDepth ==
    /\ pc = "pushed" =>
           /\ ~cg.aborted
           /\ cg.package = NestedPackage(args.depth) \o sDot \o args.message.name
           /\ cg.depth = args.depth + 1
    /\ pc = "popped" =>
           /\ ~cg.aborted
           /\ cg.package = NestedPackage(args.depth)
           /\ cg.depth = args.depth
    /\ pc = "scope_done" =>
           /\ ~cg.aborted
           /\ cg.package = NestedPackage(args.depth)
           /\ cg.depth = args.depth
           /\ \A i \in DOMAIN cg.calls :
                  /\ cg.calls[i].exit.package = cg.calls[i].entry.package
                  /\ cg.calls[i].exit.depth = cg.calls[i].entry.depth
                  /\ cg.calls[i].entry.depth
                         = Len(SelectSeq(cg.calls[i].entry.package, LAMBDA c : c = "."))
                  /\ \A j \in (cg.calls[i].from + 1)..cg.calls[i].to :
                         cg.buf[j].k \in {"mod", "struct", "enum"}
                             => ClosedAt(j, cg.calls[i].to)

\* The state that refutes it: at the nesting where the u8 of the depth is
\* full, in a build that checks overflow, append_message panics with the
\* struct line of the message written and its body not.
C17_Witness ==
    /\ pc = "scope_done"
    /\ args.depth = MaxDepth
    /\ args.overflow_checks
    /\ cg.aborted
    /\ cg.buf[Len(cg.buf)].k = "struct"
    /\ cg.depth = MaxDepth

\* The same nesting in a build that does not check overflow: push_mod leaves
\* depth 0 behind a scope of 256 modules.
ScopeWrappedSeen ==
    /\ pc = "pushed"
    /\ args.depth = MaxDepth
    /\ ~args.overflow_checks
    /\ ~cg.aborted
    /\ cg.depth = 0
    /\ cg.package = NestedPackage(MaxDepth + 1)

\* What the code does: the balance holds as long as no depth passes 255, which
\* the messages tried do not below a nesting of 253; past it a build that
\* checks overflow panics, and one that does not counts the depth modulo 256
\* and still returns every call at the depth it was entered with.
C17_AsWritten ==
    /\ args.depth < MaxDepth - 2 => C17_BalancedAtAnyDepth
    /\ (pc \in {"pushed", "scope_done"} /\ cg.aborted) => args.overflow_checks
    /\ (pc = "scope_done" /\ ~cg.aborted) =>
           /\ cg.depth = args.depth
           /\ cg.package = NestedPackage(args.depth)
           /\ \A i \in DOMAIN cg.calls :
                  /\ cg.calls[i].exit.package = cg.calls[i].entry.package
                  /\ cg.calls[i].exit.depth = cg.calls[i].entry.depth
                  /\ cg.calls[i].entry.depth
                         = Len(SelectSeq(cg.calls[i].entry.package, LAMBDA c : c = "."))
                               % (MaxDepth + 1)

\* The wrapped text: in a build that does not check overflow the field of a
\* message 255 deep is written at indent 0.
WrappedIndentSeen ==
    /\ pc = "scope_done"
    /\ args.depth = MaxDepth
    /\ ~args.overflow_checks
    /\ ~cg.aborted
    /\ \E j \in DOMAIN cg.buf : cg.buf[j].k = "field" /\ cg.buf[j].depth = 0
    /\ cg.buf[1].k = "doc" /\ cg.buf[1].depth = MaxDepth

\* A file without a name: generate gives up before the walk when the log
\* level lets debug! through, and walks the file when it does not.
NamelessAbortSeen ==
    /\ pc = "aborted"
    /\ args.log_debug
    /\ ~IsSome(args.file.name)
    /\ IsSome(args.file.package)

NamelessWalkedSeen ==
    /\ pc = "done"
    /\ ~args.log_debug
    /\ ~IsSome(args.file.name)
    /\ Len(cg.buf) > 0

\* A file with two locations of the path of its first message: the comment
\* written is that of either, whichever comes first in the file.
DoubledPickSeen(first, pick, comment) ==
    /\ pc = "done"
    /\ Len(args.file.source_code_info[1]) > 0
    /\ (args.file.source_code_info[1][1] = Doubled(<<4, 0>>)) = first
    /\ \E i \in DOMAIN args.file.source_code_info[1] :
           args.file.source_code_info[1][i] = Doubled(<<4, 0>>)
    /\ args.build.equal_pick = pick
    /\ cg.buf[1] = [k |-> "doc", depth |-> 0, text |-> comment]

DoubledAfterLastSeen == DoubledPickSeen(FALSE, 1, <<9, 9>>)

DoubledAfterFirstSeen == DoubledPickSeen(FALSE, 0, <<4, 0>>)

DoubledBeforeLastSeen == DoubledPickSeen(TRUE, 1, <<4, 0>>)

DoubledBeforeFirstSeen == DoubledPickSeen(TRUE, 0, <<9, 9>>)

(***************************************************************************)
(* Properties of the literals                                              *)
(***************************************************************************)
\* The text written in the attribute escapes the ASCII escape once more, for
\* the string literal it stands in: decoded as it is written it does not give
\* the bytes back whenever a byte needed an escape.
WrittenTextRoundTrip ==
    pc = "unescaped" => ret.of_literal = Ok(args.bytes)

\* C11: decoding the per-byte ASCII escape (ascii::escape_default) of a byte
\* sequence gives the sequence back and does not panic; the escape is the
\* inner of the two that write a bytes default.
C11_RoundTrip ==
    pc = "unescaped" => ret.of_ascii = Ok(args.bytes)

\* A byte with a hex escape and a backslash, decoded from their ASCII escape,
\* while the text written for them decodes to other bytes.
C11_Witness ==
    /\ pc = "unescaped"
    /\ args.bytes = <<255, 92>>
    /\ ret.ascii = <<"\\", "x", "f", "f", "\\", "\\">>
    /\ ret.of_ascii = Ok(<<255, 92>>)
    /\ ret.of_literal # Ok(<<255, 92>>)

(***************************************************************************)
(* Properties of the comment index                                         *)
(***************************************************************************)
\* The places of the file's locations that the index keeps and that have
\* exactly the path looked up.
LocationsOfPath ==
    {i \in DOMAIN args.locations :
        /\ args.locations[i].path = args.path
        /\ Len(args.locations[i].path) > 0
        /\ Len(args.locations[i].path) % 2 = 0}

\* C12: when the filtered, sorted index has no entry with exactly the current
\* path the lookup aborts the pass and writes nothing, no neighbouring
\* comment either; when it has one, the comment written is that of an entry
\* with exactly that path.
C12_ExactLookup ==
    pc = "doc_done" =>
        IF LocationsOfPath = {}
        THEN cg.aborted /\ cg.buf = <<>>
        ELSE /\ ~cg.aborted
             /\ Len(cg.buf) = 1
             /\ cg.buf[1].k = "doc"
             /\ \E i \in LocationsOfPath : cg.buf[1].text = args.locations[i].comment

\* A lookup that finds the last location of a file written out of order, and
\* a lookup that finds none next to a neighbouring path.
C12_Witness ==
    /\ pc = "doc_done"
    /\ \/ /\ args.path = <<4, 0>>
          /\ [i \in DOMAIN args.locations |-> args.locations[i].path]
                 = <<<<5, 0>>, <<4, 0, 2, 0>>, <<4, 0>>>>
          /\ cg.buf = <<[k |-> "doc", depth |-> 0, text |-> 3]>>
       \/ /\ args.path = <<4, 1>>
          /\ [i \in DOMAIN args.locations |-> args.locations[i].path]
                 = <<<<4, 0>>, <<5, 0>>>>
          /\ cg.aborted

(***************************************************************************)
(* Properties of the decoder                                               *)
(***************************************************************************)
\* The octal digits at s[p ..], three at most.
OctalRun(s, p) ==
    IF p + 2 <= Len(s) /\ IsOctalDigit(s[p + 1]) /\ IsOctalDigit(s[p + 2]) THEN 3
    ELSE IF p + 1 <= Len(s) /\ IsOctalDigit(s[p + 1]) THEN 2
    ELSE 1

OctalValue(digits) ==
    IF Len(digits) = 1 THEN Ord(digits[1]) - 48
    ELSE IF Len(digits) = 2 THEN 8 * (Ord(digits[1]) - 48) + (Ord(digits[2]) - 48)
    ELSE 64 * (Ord(digits[1]) - 48) + 8 * (Ord(digits[2]) - 48) + (Ord(digits[3]) - 48)

\* The decoding the specification describes, read from position p with dst
\* decoded so far: the bytes, an abort, or nothing said (an octal escape whose
\* value is no byte).
RECURSIVE Decoding(_, _, _)
Decoding(s, p, dst) ==
    IF p > Len(s) THEN [kind |-> "bytes", val |-> dst]
    ELSE IF s[p] # "\\" THEN Decoding(s, p + 1, Append(dst, Ord(s[p])))
    ELSE IF p = Len(s) THEN [kind |-> "abort", val |-> <<>>]
    ELSE IF IsOctalDigit(s[p + 1])
    THEN IF OctalValue(SubSeq(s, p + 1, p + OctalRun(s, p + 1))) > 255
         THEN [kind |-> "unsaid", val |-> <<>>]
         ELSE Decoding(s, p + 1 + OctalRun(s, p + 1),
                       Append(dst, OctalValue(SubSeq(s, p + 1, p + OctalRun(s, p + 1)))))
    ELSE IF s[p + 1] \in {"x", "X"}
    THEN IF p + 3 <= Len(s) /\ IsHexDigit(s[p + 2]) /\ IsHexDigit(s[p + 3])
         THEN Decoding(s, p + 4, Append(dst, 16 * HexValue(s[p + 2]) + HexValue(s[p + 3])))
         ELSE [kind |-> "abort", val |-> <<>>]
    ELSE IF s[p + 1] \in {"a", "b", "f", "n", "r", "t", "v", "\\", "?", "'", "\""}
    THEN Decoding(s, p + 2,
                  Append(dst, CASE s[p + 1] = "a" -> 7 [] s[p + 1] = "b" -> 8
                                [] s[p + 1] = "f" -> 12 [] s[p + 1] = "n" -> 10
                                [] s[p + 1] = "r" -> 13 [] s[p + 1] = "t" -> 9
                                [] s[p + 1] = "v" -> 11 [] s[p + 1] = "\\" -> 92
                                [] s[p + 1] = "?" -> 63 [] s[p + 1] = "'" -> 39
                                [] s[p + 1] = "\"" -> 34))
    ELSE [kind |-> "abort", val |-> <<>>]

\* C18: unescape_c_escape_string decodes left to right: a byte that is not a
\* backslash is copied; a backslash and one to three octal digits, taken
\* greedily, give the byte of that value; a backslash, x or X and two hex
\* digits give that byte; the named escapes give their bytes; a trailing
\* backslash, an unknown escape letter and a hex escape without two hex
\* digits abort.
C18_Decoding ==
    pc = "decoded" =>
        /\ Decoding(args.literal, 1, <<>>).kind = "bytes"
               => ret = Ok(Decoding(args.literal, 1, <<>>).val)
        /\ Decoding(args.literal, 1, <<>>).kind = "abort" => ret = Panic

\* The state that refutes it: the hex escape of a plus sign and one digit is
\* decoded as the byte of the digit.
C18_Witness ==
    /\ pc = "decoded"
    /\ args.literal = <<"\\", "x", "+", "f">>
    /\ Decoding(args.literal, 1, <<>>).kind = "abort"
    /\ ret = Ok(<<15>>)

\* A hex escape written with a sign: backslash, x or X, a plus and a hex digit.
HasSignedHex(s) ==
    \E p \in DOMAIN s :
        /\ p + 3 <= Len(s)
        /\ s[p] = "\\"
        /\ s[p + 1] \in {"x", "X"}
        /\ s[p + 2] = "+"
        /\ IsHexDigit(s[p + 3])

\* What the code does: the decoding above wherever it gives bytes; the aborts
\* above except after a signed hex escape, which u8::from_str_radix accepts;
\* and on an octal escape past \377 a panic in a build that checks overflow
\* (one that does not goes on with the value cut to a byte).
C18_AsWritten ==
    pc = "decoded" =>
        /\ Decoding(args.literal, 1, <<>>).kind = "bytes"
               => ret = Ok(Decoding(args.literal, 1, <<>>).val)
        /\ (Decoding(args.literal, 1, <<>>).kind = "abort" /\ ~HasSignedHex(args.literal))
               => ret = Panic
        /\ (Decoding(args.literal, 1, <<>>).kind = "unsaid" /\ args.overflow_checks)
               => ret = Panic

\* An octal escape past \377 in each of the two builds.
OctalOverflowSeen ==
    /\ pc = "decoded"
    /\ args.literal = <<"\\", "7", "7", "7">>
    /\ IF args.overflow_checks THEN ret = Panic ELSE ret = Ok(<<255>>)

\* Three locations of the path looked up: the search may return the last of
\* them as well as any other.
EqualEntriesSeen ==
    /\ pc = "doc_done"
    /\ args.path = <<4, 0>>
    /\ [i \in DOMAIN args.locations |-> args.locations[i].path] = <<<<4, 0>>, <<4, 0>>, <<4, 0>>>>
    /\ cg.buf = <<[k |-> "doc", depth |-> 0, text |-> 3]>>

(***************************************************************************)
(* Properties of the oneofs and the groups of a message                    *)
(***************************************************************************)
\* The tags of the fields of the message that name the oneof of this index,
\* in the order the fields are declared.
TagsOf(idx) ==
    LET members == SelectSeq(args.message.field, LAMBDA f : f.oneof_index = Some(idx))
    IN  [i \in DOMAIN members |-> members[i].number]

IsRising(tags) == \A a, b \in DOMAIN tags : a < b => tags[a] < tags[b]

\* C14 as the specification states it: the union field of every oneof lists
\* the tags of its members in rising order, in whatever order they are
\* declared.
C14_Original ==
    (pc = "message_done" /\ ~cg.aborted) =>
        /\ Len(Lines("prost_oneof")) = Len(args.message.oneof_decl)
        /\ \A j \in DOMAIN Lines("prost_oneof") :
               /\ {Lines("prost_oneof")[j].tags[i] : i \in DOMAIN Lines("prost_oneof")[j].tags}
                      = {TagsOf(j - 1)[i] : i \in DOMAIN TagsOf(j - 1)}
               /\ IsRising(Lines("prost_oneof")[j].tags)

\* C14: the union field of every declared oneof lists the tags of all the
\* fields that name the oneof, in the order the fields are declared in the
\* message; the list is rising only when the declarations are.
C14_DeclarationOrder ==
    (pc = "message_done" /\ ~cg.aborted) =>
        /\ Len(Lines("prost_oneof")) = Len(args.message.oneof_decl)
        /\ \A j \in DOMAIN Lines("prost_oneof") :
               /\ Lines("prost_oneof")[j].at = <<4, 0, 8, j - 1>>
               /\ Lines("prost_oneof")[j].tags = TagsOf(j - 1)

\* A oneof whose three int32 members are declared with falling tags.
C14_Witness ==
    /\ pc = "message_done"
    /\ ~cg.aborted
    /\ Len(args.message.oneof_decl) = 1
    /\ TagsOf(0) = <<3, 2, 1>>
    /\ \A i \in DOMAIN args.message.field : args.message.field[i].type = "Int32"
    /\ Len(Lines("prost_oneof")) = 1
    /\ Lines("prost_oneof")[1].tags = <<3, 2, 1>>

\* The places in the message of its group fields.
GroupFields == {i \in DOMAIN args.message.field : args.message.field[i].type = "Group"}

\* The fields of the message name its declared oneofs and no other: neither
\* the assertion on their number nor the lookup of their members fails.
OneofsWellFormed == OneofKeys(args.message) = 0 .. (Len(args.message.oneof_decl) - 1)

\* No comment, attribute, struct field or variant is written for the field at
\* this place, and no attribute of a field or variant carries its tag.
NoFieldText(i) ==
    \A j \in DOMAIN cg.buf :
        /\ cg.buf[j].k = "doc" => cg.buf[j].text # <<4, 0, 2, i - 1>>
        /\ cg.buf[j].k \in {"prost", "field", "variant", "prost_map", "map_field"}
               => cg.buf[j].at # <<4, 0, 2, i - 1>>
        /\ cg.buf[j].k = "prost"
               => \A p \in DOMAIN cg.buf[j].parts :
                      cg.buf[j].parts[p].t = "tag="
                          => cg.buf[j].parts[p].v # args.message.field[i].number

\* The tag of the field at this place is in no tag list of a union field.
NoListedTag(i) ==
    \A j \in DOMAIN Lines("prost_oneof") :
        \A t \in DOMAIN Lines("prost_oneof")[j].tags :
            Lines("prost_oneof")[j].tags[t] # args.message.field[i].number

\* C15: a group field does not abort the pass and leaves nothing in the text
\* written: no struct field, no comment, no variant, and its tag in no tag
\* list, the tag list of the oneof it is a member of included.
C15_GroupNoTrace ==
    (pc = "message_done" /\ OneofsWellFormed) =>
        /\ ~cg.aborted
        /\ \A i \in GroupFields : NoFieldText(i) /\ NoListedTag(i)

\* The state that refutes it: a oneof of an int32 with tag 1 and a group with
\* tag 2, whose union field lists both tags while only the int32 has a variant.
C15_Witness ==
    /\ pc = "message_done"
    /\ ~cg.aborted
    /\ Len(args.message.field) = 2
    /\ args.message.field[1].type = "Int32"
    /\ args.message.field[2].type = "Group"
    /\ TagsOf(0) = <<1, 2>>
    /\ Len(Lines("prost_oneof")) = 1
    /\ Lines("prost_oneof")[1].tags = <<1, 2>>
    /\ Len(Lines("variant")) = 1
    /\ NoFieldText(2)

\* What the code does with a group: nothing is written for the field itself,
\* in a struct or in the enum of a oneof, and the pass goes on; the tag list of
\* the oneof it is a member of still names it.
C15_AsWritten ==
    (pc = "message_done" /\ OneofsWellFormed) =>
        /\ ~cg.aborted
        /\ \A i \in GroupFields :
               /\ NoFieldText(i)
               /\ NoListedTag(i) <=> ~IsSome(args.message.field[i].oneof_index)

\* The places in the text of the lines of one kind.
PlacesOf(kind) == {j \in DOMAIN cg.buf : cg.buf[j].k = kind}

\* One union field for every declared oneof, in the order declared, after
\* the fields that are in no oneof.
UnionFieldsWritten ==
    /\ Len(Lines("oneof_field")) = Len(args.message.oneof_decl)
    /\ \A j \in DOMAIN Lines("oneof_field") :
           /\ Lines("oneof_field")[j].at = <<4, 0, 8, j - 1>>
           /\ Lines("oneof_field")[j].name = to_snake(args.message.oneof_decl[j].name)
    /\ \A f \in PlacesOf("field"), u \in PlacesOf("oneof_field") : f < u

\* C19 as the specification states it: a message whose fields name a number
\* of oneofs other than the number declared aborts the pass before any text
\* is written for it; when the numbers are equal, one union field is written
\* for every declared oneof, in the order declared, after the other fields.
C19_Original ==
    pc = "message_done" =>
        IF Cardinality(OneofKeys(args.message)) # Len(args.message.oneof_decl)
        THEN cg.aborted /\ cg.buf = <<>>
        ELSE ~cg.aborted /\ UnionFieldsWritten

\* C19: a message whose fields name a number of oneofs other than the number
\* declared aborts the pass before any text is written for it; when the
\* oneofs named are exactly the declared ones, one union field is written for
\* every declared oneof, in the order declared, after the other fields; when
\* the numbers are equal and a named oneof is not declared, the pass aborts
\* too, at the first declared oneof no field names, with the text of the
\* message up to there written.
C19_OneofCount ==
    pc = "message_done" =>
        IF Cardinality(OneofKeys(args.message)) # Len(args.message.oneof_decl)
        THEN cg.aborted /\ cg.buf = <<>>
        ELSE IF OneofsWellFormed
        THEN ~cg.aborted /\ UnionFieldsWritten
        ELSE /\ cg.aborted
             /\ PlacesOf("struct") # {}
             /\ \A j \in DOMAIN Lines("oneof_field") : j - 1 \in OneofKeys(args.message)
             /\ Len(Lines("oneof_field")) \notin OneofKeys(args.message)

\* A message with a field outside the oneofs, whose fields name two oneofs
\* while it declares one: the pass is aborted with no text written.
C19_Witness ==
    /\ pc = "message_done"
    /\ Len(args.message.oneof_decl) = 1
    /\ OneofKeys(args.message) = {0, 1}
    /\ \E i \in DOMAIN args.message.field :
           /\ args.message.field[i].oneof_index = None
           /\ args.message.field[i].type = "Int32"
    /\ cg.aborted
    /\ cg.buf = <<>>

\* A message with a field outside the oneofs and two oneofs, written whole.
UnionFieldsSeen ==
    /\ pc = "message_done"
    /\ Len(args.message.oneof_decl) = 2
    /\ OneofKeys(args.message) = {0, 1}
    /\ ~cg.aborted
    /\ Len(Lines("oneof_field")) = 2
    /\ Len(Lines("field")) = 1

\* A message that declares one oneof and names another: aborted after its
\* struct line.
UndeclaredOneofSeen ==
    /\ pc = "message_done"
    /\ Len(args.message.oneof_decl) = 1
    /\ OneofKeys(args.message) = {1}
    /\ cg.aborted
    /\ PlacesOf("struct") # {}

(***************************************************************************)
(* Properties of the default of an enum field                              *)
(***************************************************************************)
\* The identifier append_enum wrote for the value.
LoweredVariant == SelectSeq(ret, LAMBDA l : l.k = "value")[1].name

\* The identifier append_field wrote as the default of the field.
LoweredDefault ==
    LET parts == Lines("prost")[1].parts
    IN  parts[CHOOSE i \in DOMAIN parts : parts[i].t = "default="].v

\* C16: the default written for an enum field is the identifier append_enum
\* writes for the same value of the same enum: with stripping on, the
\* case-converted value with the case-converted name of the enum stripped by
\* strip_enum_prefix; with stripping off, the case-converted value.
C16_DefaultIsVariant ==
    pc = "default_lowered" =>
        /\ ~cg.aborted
        /\ LoweredDefault = LoweredVariant
        /\ LoweredDefault =
               IF args.strip
               THEN strip_enum_prefix(to_upper_camel(args.enum), to_upper_camel(args.value))
               ELSE to_upper_camel(args.value)

\* The state that refutes it: enum color { COLOR_RED = 0; } is lowered with the
\* variant Red, and the default COLOR_RED of a field of the type with ColorRed.
C16_Witness ==
    /\ pc = "default_lowered"
    /\ args.strip
    /\ args.enum = <<"c", "o", "l", "o", "r">>
    /\ args.value = <<"C", "O", "L", "O", "R", "_", "R", "E", "D">>
    /\ LoweredVariant = <<"R", "e", "d">>
    /\ LoweredDefault = <<"C", "o", "l", "o", "r", "R", "e", "d">>

\* What append_field does: the prefix it strips is the last segment of the
\* field's type name as the descriptor spells it, and what is left is
\* case-converted once more.
C16_AsWritten ==
    pc = "default_lowered" =>
        /\ ~cg.aborted
        /\ LoweredDefault =
               IF args.strip
               THEN to_upper_camel(strip_enum_prefix(args.enum, to_upper_camel(args.value)))
               ELSE to_upper_camel(args.value)
        /\ (~args.strip \/ to_upper_camel(args.enum) = args.enum)
               => LoweredDefault = LoweredVariant

====
